---- MODULE Spec2Model ----
(***************************************************************************)
(* Data-access layer of lab-cms: the connection/transaction manager        *)
(* (internal/pkg/db), the error translator and the entity repositories     *)
(* (internal/pkg/repository) over the schema of migrations/*.sql.          *)
(*                                                                         *)
(* The relational store is modelled by what the statements of the          *)
(* repositories do to it: tables are functions from row id to row,         *)
(* junction tables are sets of pairs, AUTOINCREMENT is a per-table         *)
(* sequence, and the schema's CHECK / UNIQUE / FOREIGN KEY constraints     *)
(* decide which statements fail.  A transaction works on a private view    *)
(* of the store that is installed on commit and dropped on rollback.       *)
(***************************************************************************)
EXTENDS Integers, Sequences, FiniteSets, TLC

VARIABLES
    db,        \* the committed store
    txs,       \* the transactions begun by WithTransaction, by id
    agg,       \* the aggregate fetch in flight (GetWithRelations / GetWithAuthors)
    last,      \* the most recent call that returned, with what it returned
    deleted,   \* history: the <<table, id>> whose Delete returned nil
    purged,    \* history: those of them whose Delete is committed
    now,       \* the clock: datetime('now') in the store, time.Now() in the process
    pool,      \* the limits of the connection pool of m.db
    mig,       \* the store the migration runners work on
    run,       \* the migration runners, by id
    wt         \* the calls of WithTransaction step by step, by id

vars == <<db, txs, agg, last, deleted, purged, now, pool, mig, run, wt>>

\* what the repositories and the transactions leave alone
rest == <<pool, mig, run, wt>>

----------------------------------------------------------------------------
(* Bounds of the model *)

\* the ids callers pass, and the rows ever inserted in one table
MaxId == 2
\* rows ever inserted in all tables together, per specification
MaxLinkRows == 3
MaxAggRows == 3
MaxCrudRows == 2
MaxTxRows == 2
MaxDeleteRows == 2
MaxCreateRows == 2
MaxUserRows == 2
MaxNewsRows == 2
MaxMembers == 3
\* how many times an error handed to WrapError was wrapped before
MaxWrap == 2
\* the instants of the clock
MaxTime == 2
\* WithTransaction calls in one behaviour
MaxTx == 2
\* the connection limits callers pass to ConfigurePool
MaxConns == 3
\* the versions of the migration files, the files of a directory, the calls of
\* Run on one runner, the runners
MaxVersion == 2
MaxFiles == 2
MaxRuns == 2
MaxRunners == 2

Ids == 1..MaxId
TxIds == 1..MaxTx

----------------------------------------------------------------------------
(* Errors: internal/pkg/repository/errors.go *)

sqliteConstraintUnique == 2067
sqliteConstraintForeignKey == 787
sqliteConstraintNotNull == 1299
sqliteConstraintPrimaryKey == 1555

NoError == [kind |-> "nil"]
ErrNotFound == [kind |-> "ErrNotFound"]
ErrDuplicate == [kind |-> "ErrDuplicate"]
ErrInvalidInput == [kind |-> "ErrInvalidInput"]
ErrDatabase == [kind |-> "ErrDatabase"]

\* database/sql's sentinel for a Scan of an empty result
sqlErrNoRows == [kind |-> "sql.ErrNoRows"]
\* *sqlite.Error with its extended result code
SqliteError(code) == [kind |-> "sqlite.Error", code |-> code]
\* any other failure of a statement (cancelled context, I/O)
DriverError == [kind |-> "driver"]
\* fmt.Errorf("<msg>: %w", err)
Errorf(msg, err) == [kind |-> "wrapped", msg |-> msg, cause |-> err]

\* errors.Is: err or any error it wraps is target
RECURSIVE ErrorsIs(_, _)
ErrorsIs(err, target) ==
    \/ err = target
    \/ /\ err.kind = "wrapped"
       /\ ErrorsIs(err.cause, target)

isConstraintViolation(err, code) ==
    /\ err # NoError
    /\ err.kind = "sqlite.Error"
    /\ err.code = code

\* an IsDuplicateError that knows the unique-index code only
IsDuplicateError_UniqueOnly(err) ==
    /\ err # NoError
    /\ isConstraintViolation(err, sqliteConstraintUnique)

IsDuplicateError(err) ==
    /\ err # NoError
    /\ \/ isConstraintViolation(err, sqliteConstraintUnique)
       \/ isConstraintViolation(err, sqliteConstraintPrimaryKey)

IsForeignKeyError(err) == isConstraintViolation(err, sqliteConstraintForeignKey)

IsNotNullError(err) == isConstraintViolation(err, sqliteConstraintNotNull)

WrapError(err, operation) ==
    IF err = NoError THEN NoError
    ELSE IF ErrorsIs(err, sqlErrNoRows) THEN ErrNotFound
    ELSE IF IsDuplicateError(err) THEN ErrDuplicate
    ELSE Errorf(operation, err)

\* WrapError called on its own: what it was given and what it returned
WrapErrorCall(err, operation) ==
    /\ last' = [op |-> "WrapError", arg |-> err, label |-> operation,
                err |-> WrapError(err, operation)]
    /\ UNCHANGED <<db, txs, agg, deleted, purged, now, rest>>

\* result is a sql.Result: [rows, err] as RowsAffected() returns them
CheckRowsAffected_ZeroIsSuccess(result, expected) ==
    IF result.err # NoError THEN Errorf("failed to get rows affected", ErrDatabase)
    ELSE IF result.rows # 0 /\ result.rows # expected
         THEN Errorf("rows affected mismatch", ErrDatabase)
    ELSE NoError

CheckRowsAffected(result, expected) ==
    IF result.err # NoError THEN Errorf("failed to get rows affected", ErrDatabase)
    ELSE IF result.rows = 0 THEN ErrNotFound
    ELSE IF result.rows # expected THEN Errorf("rows affected mismatch", ErrDatabase)
    ELSE NoError

----------------------------------------------------------------------------
(* The schema: migrations/001_initial_schema.sql, 002_add_indexes.sql,     *)
(* 003_lab_settings.sql                                                    *)

EntityTables ==
    {"users", "lab_members", "publications", "projects", "news", "homepage_sections"}

JunctionTables == {"project_members", "publication_authors", "project_publications"}

\* the parent table of each of the two columns of a junction table
Parents(jt) ==
    CASE jt = "project_members" -> <<"projects", "lab_members">>
      [] jt = "publication_authors" -> <<"publications", "lab_members">>
      [] jt = "project_publications" -> <<"projects", "publications">>

\* the CHECK constraints on the enum columns
CheckOK(tbl, row) ==
    CASE tbl = "users" -> row.role \in {"normal", "root"}
      [] tbl = "lab_members" ->
            row.role \in {"PI", "Postdoc", "PhD", "Master", "Bachelor", "Researcher"}
      [] tbl = "projects" -> row.status \in {"active", "completed"}
      [] OTHER -> TRUE

\* the column of the table's UNIQUE index, for the tables that have one
UniqueTables == {"users", "homepage_sections", "lab_settings"}

UniqueKey(tbl, row) ==
    CASE tbl = "users" -> row.email
      [] tbl = "homepage_sections" -> row.section_key
      [] tbl = "lab_settings" -> row.setting_key

\* a table without its unique index
UniqueOK_NoIndex(v, tbl, id, row) == TRUE

UniqueOK(v, tbl, id, row) ==
    \/ tbl \notin UniqueTables
    \/ \A j \in DOMAIN v[tbl] : j # id => UniqueKey(tbl, v[tbl][j]) # UniqueKey(tbl, row)

\* the store right after the migrations ran
EmptyTable == [i \in {} |-> i]

SchemaDB ==
    [ users |-> EmptyTable,
      lab_members |-> EmptyTable,
      publications |-> EmptyTable,
      projects |-> EmptyTable,
      news |-> EmptyTable,
      homepage_sections |-> EmptyTable,
      lab_settings |->
        [i \in {1, 2} |->
            [ id |-> i,
              setting_key |-> IF i = 1 THEN "lab_name" ELSE "lab_description",
              setting_value |-> IF i = 1 THEN "Research Lab" ELSE "A research laboratory",
              created_at |-> 1,
              updated_at |-> 1 ]],
      project_members |-> {},
      publication_authors |-> {},
      project_publications |-> {},
      seq |-> [t \in EntityTables |-> 0] ]

\* rows inserted so far in view v of the store
Created(v) ==
    v.seq["users"] + v.seq["lab_members"] + v.seq["publications"]
        + v.seq["projects"] + v.seq["news"] + v.seq["homepage_sections"]

----------------------------------------------------------------------------
(* What a statement does to a view v of the store.  Each yields             *)
(*   [view: the view after it, err: the driver's error, rows: rows          *)
(*    affected, id: the id RETURNING gives]                                 *)

Outcome(v, err, rows, id) == [view |-> v, err |-> err, rows |-> rows, id |-> id]

Put(t, id, row) == [i \in DOMAIN t \cup {id} |-> IF i = id THEN row ELSE t[i]]

Drop(t, ids) == [i \in DOMAIN t \ ids |-> t[i]]

\* UPDATE ... SET: the columns of set replace those of row
Assign(row, set) == [c \in DOMAIN row |-> IF c \in DOMAIN set THEN set[c] ELSE row[c]]

\* an INSERT into a table whose key is INTEGER PRIMARY KEY without AUTOINCREMENT:
\* the new id is one more than the largest stored id
SqlInsert_WithoutAutoincrement(v, tbl, row) ==
    LET id == IF \E i \in DOMAIN v[tbl] : \A j \in DOMAIN v[tbl] : j <= i
              THEN 1 + CHOOSE i \in DOMAIN v[tbl] : \A j \in DOMAIN v[tbl] : j <= i
              ELSE 1
        new == Assign(row, [id |-> id])
    IN  IF ~CheckOK(tbl, new) THEN Outcome(v, SqliteError(275), 0, 0)
        ELSE IF ~UniqueOK(v, tbl, id, new)
             THEN Outcome(v, SqliteError(sqliteConstraintUnique), 0, 0)
        ELSE Outcome([v EXCEPT ![tbl] = Put(@, id, new), !.seq[tbl] = @ + 1],
                     NoError, 1, id)

\* INSERT INTO tbl (...) VALUES (...) RETURNING id: INTEGER PRIMARY KEY AUTOINCREMENT
SqlInsert(v, tbl, row) ==
    LET id == v.seq[tbl] + 1
        new == Assign(row, [id |-> id])
    IN  IF ~CheckOK(tbl, new) THEN Outcome(v, SqliteError(275), 0, 0)
        ELSE IF ~UniqueOK(v, tbl, id, new)
             THEN Outcome(v, SqliteError(sqliteConstraintUnique), 0, 0)
        ELSE Outcome([v EXCEPT ![tbl] = Put(@, id, new), !.seq[tbl] = id],
                     NoError, 1, id)

\* an UPDATE that inserts the rows it does not find
SqlUpdate_InsertsMissing(v, tbl, ids, set) ==
    Outcome([v EXCEPT ![tbl] = [i \in DOMAIN @ \cup ids |-> set]], NoError,
            Cardinality(ids), 0)

\* UPDATE tbl SET set WHERE <the rows ids>
SqlUpdate(v, tbl, ids, set) ==
    LET hit == ids \cap DOMAIN v[tbl]
        new == [i \in hit |-> Assign(v[tbl][i], set)]
    IN  IF \E i \in hit : ~CheckOK(tbl, new[i])
        THEN Outcome(v, SqliteError(275), 0, 0)
        ELSE IF \E i \in hit : ~UniqueOK(v, tbl, i, new[i])
             THEN Outcome(v, SqliteError(sqliteConstraintUnique), 0, 0)
        ELSE Outcome(
                [v EXCEPT ![tbl] = [i \in DOMAIN @ |-> IF i \in hit THEN new[i] ELSE @[i]]],
                NoError, Cardinality(hit), 0)

\* ON DELETE CASCADE: the junction rows that reference the deleted parents go too
Cascade_KeepsJunctionRows(v, tbl, ids) == v

Cascade(v, tbl, ids) ==
    CASE tbl = "projects" ->
            [v EXCEPT !.project_members = {p \in @ : p[1] \notin ids},
                      !.project_publications = {p \in @ : p[1] \notin ids}]
      [] tbl = "lab_members" ->
            [v EXCEPT !.project_members = {p \in @ : p[2] \notin ids},
                      !.publication_authors = {p \in @ : p[2] \notin ids}]
      [] tbl = "publications" ->
            [v EXCEPT !.publication_authors = {p \in @ : p[1] \notin ids},
                      !.project_publications = {p \in @ : p[2] \notin ids}]
      [] OTHER -> v

\* DELETE FROM tbl WHERE <the rows ids>; cascaded rows are not counted
SqlDelete(v, tbl, ids) ==
    LET hit == ids \cap DOMAIN v[tbl]
    IN  Outcome(Cascade([v EXCEPT ![tbl] = Drop(@, hit)], tbl, hit),
                NoError, Cardinality(hit), 0)

\* INSERT INTO jt VALUES (a, b) ON CONFLICT (a, b) DO NOTHING
SqlInsertJunction_NoConflictClause(v, jt, a, b) ==
    IF <<a, b>> \in v[jt]
    THEN Outcome(v, SqliteError(sqliteConstraintPrimaryKey), 0, 0)
    ELSE IF a \notin DOMAIN v[Parents(jt)[1]] \/ b \notin DOMAIN v[Parents(jt)[2]]
         THEN Outcome(v, SqliteError(sqliteConstraintForeignKey), 0, 0)
    ELSE Outcome([v EXCEPT ![jt] = @ \cup {<<a, b>>}], NoError, 1, 0)

SqlInsertJunction(v, jt, a, b) ==
    IF <<a, b>> \in v[jt] THEN Outcome(v, NoError, 0, 0)
    ELSE IF a \notin DOMAIN v[Parents(jt)[1]] \/ b \notin DOMAIN v[Parents(jt)[2]]
         THEN Outcome(v, SqliteError(sqliteConstraintForeignKey), 0, 0)
    ELSE Outcome([v EXCEPT ![jt] = @ \cup {<<a, b>>}], NoError, 1, 0)

\* a DELETE whose WHERE clause names the first column only
SqlDeleteJunction_ByFirstColumn(v, jt, a, b) ==
    Outcome([v EXCEPT ![jt] = {r \in @ : r[1] # a}], NoError,
            Cardinality({r \in v[jt] : r[1] = a}), 0)

\* DELETE FROM jt WHERE a = $1 AND b = $2
SqlDeleteJunction(v, jt, a, b) ==
    Outcome([v EXCEPT ![jt] = @ \ {<<a, b>>}], NoError,
            IF <<a, b>> \in v[jt] THEN 1 ELSE 0, 0)

----------------------------------------------------------------------------
(* Connection/transaction manager: internal/pkg/db (DBManager)             *)

\* GetTx's nil, and the base handle m.db among the executors
NoTx == 0
BaseHandle == 0
\* context.Background()
Background == 0

\* a placeholder for "no view" / "no result"
None == [none |-> TRUE]

UnusedTx ==
    [ state |-> "unused", ctx |-> Background, tx |-> NoTx, started |-> FALSE,
      dirty |-> FALSE, view |-> None, snap |-> None, deletes |-> {} ]

\* A context is Background or the txCtx a WithTransaction call c handed to its fn:
\* context.WithValue(ctx, txContextKey, tx).  GetTx reads the innermost value.
GetTx(ctx) == IF ctx = Background THEN NoTx ELSE txs[ctx].tx

GetExecer(ctx) == IF GetTx(ctx) # NoTx THEN GetTx(ctx) ELSE BaseHandle

\* the contexts a caller can hold: Background and the txCtx of every running fn
Contexts == {Background} \cup {c \in TxIds : txs[c].state = "open"}

\* what executor e reads: a transaction sees the store as of its first statement
\* plus its own writes
ViewOf(e) ==
    IF e = BaseHandle THEN db
    ELSE IF txs[e].started THEN txs[e].view
    ELSE db

\* the store admits one writer: a write is refused (SQLITE_BUSY) while another
\* transaction holds uncommitted writes, or when the transaction's view is stale
WriteAllowed(e) ==
    /\ \A t \in TxIds : (txs[t].state = "open" /\ txs[t].dirty) => t = e
    /\ e # BaseHandle => (~txs[e].started \/ txs[e].dirty \/ txs[e].snap = db)

\* the outcome of a statement on the executor of ctx: out if it runs
Statement(ctx, fault, isWrite, out) ==
    IF fault THEN Outcome(ViewOf(GetExecer(ctx)), DriverError, 0, 0)
    ELSE IF isWrite /\ ~WriteAllowed(GetExecer(ctx))
         THEN Outcome(ViewOf(GetExecer(ctx)), SqliteError(5), 0, 0)
    ELSE out

\* the statement ran: its effect lands in the store, or in the transaction's view
Ran(ctx, fault, isWrite) ==
    /\ ~fault
    /\ isWrite => WriteAllowed(GetExecer(ctx))

\* del: the <<table, id>> a Delete that returned nil removed (history only)
Install(ctx, fault, isWrite, o, del) ==
    LET e == GetExecer(ctx)
    IN  /\ deleted' = deleted \cup del
        /\ IF ~Ran(ctx, fault, isWrite) THEN UNCHANGED <<db, txs, purged>>
           ELSE IF e = BaseHandle
                THEN db' = o.view /\ purged' = purged \cup del /\ UNCHANGED txs
           ELSE /\ txs' = [txs EXCEPT ![e].started = TRUE,
                                      ![e].view = o.view,
                                      ![e].snap = IF txs[e].started THEN @ ELSE db,
                                      ![e].dirty = @ \/ isWrite,
                                      ![e].deletes = @ \cup del]
                /\ UNCHANGED <<db, purged>>

\* the error fn hands back when it fails
AnError == [kind |-> "assert.AnError"]

\* WithTransaction, up to the call of fn: BeginTx, then txCtx carries the new tx
WithTransaction_Begin(ctx, beginFails) ==
    /\ ctx \in Contexts
    /\ \E c \in TxIds :
        /\ txs[c].state = "unused"
        /\ \A d \in TxIds : d < c => txs[d].state # "unused"
        /\ IF beginFails
           THEN /\ txs' = [txs EXCEPT ![c] =
                            [@ EXCEPT !.state = "beginFailed", !.ctx = ctx]]
                /\ last' = [op |-> "WithTransaction", call |-> c, ctx |-> ctx,
                            fnCalls |-> 0, fnErr |-> NoError, wrote |-> FALSE,
                            err |-> Errorf("failed to begin transaction", DriverError)]
           ELSE /\ txs' = [txs EXCEPT ![c] =
                            [@ EXCEPT !.state = "open", !.ctx = ctx, !.tx = c]]
                /\ last' = [op |-> "fn", call |-> c, ctx |-> ctx, err |-> NoError]
    /\ UNCHANGED <<db, agg, deleted, purged, now, rest>>

\* a WithTransaction that commits whatever fn returned
Commits_IgnoresFnError(fnErr, endFails) == ~endFails

\* fn returned nil and tx.Commit() returned nil; endFails: Commit, or Rollback, fails
Commits(fnErr, endFails) == fnErr = NoError /\ ~endFails

\* what WithTransaction returns once fn has returned
Returns(fnErr, endFails) ==
    IF fnErr # NoError
    THEN IF endFails
         THEN Errorf("transaction failed; rollback also failed", fnErr)
         ELSE fnErr
    ELSE IF endFails
         THEN Errorf("failed to commit transaction", DriverError)
         ELSE NoError

\* WithTransaction, from the return of fn: Rollback or Commit
WithTransaction_End(c, fnErr, endFails) ==
    /\ txs[c].state = "open"
    \* fn has returned: no call it made is still running
    /\ agg.pc # "idle" => agg.ctx # c
    \* a nested call returns before the fn that made it
    /\ \A d \in TxIds : txs[d].state = "open" => txs[d].ctx # c
    /\ LET ret == Returns(fnErr, endFails)
           commits == Commits(fnErr, endFails)
       IN  /\ txs' = [txs EXCEPT ![c] =
                        [UnusedTx EXCEPT !.state = IF commits THEN "committed"
                                                   ELSE IF fnErr # NoError THEN "rolledBack"
                                                   ELSE "commitFailed",
                                         !.ctx = txs[c].ctx, !.tx = txs[c].tx]]
           /\ db' = IF commits /\ txs[c].dirty THEN txs[c].view ELSE db
           /\ purged' = IF commits THEN purged \cup txs[c].deletes ELSE purged
           /\ last' = [op |-> "WithTransaction", call |-> c, ctx |-> txs[c].ctx,
                       fnCalls |-> 1, fnErr |-> fnErr, wrote |-> txs[c].dirty,
                       err |-> ret]
    /\ UNCHANGED <<agg, deleted, now, rest>>

\* ---- WithTransaction, one step per call it makes ---------------------------
\* The same function at the grain of its calls: BeginTx, fn, Rollback, Commit.
\* pc is the call it makes next; tx is what became of the transaction BeginTx
\* gave: "none" before it, "open", then what the one ending call did.

NoCall ==
    [pc |-> "BeginTx", tx |-> "none", fnCalls |-> 0, commits |-> 0, rollbacks |-> 0,
     fnErr |-> NoError, err |-> NoError]

\* a WithTransaction that returns fn's error at once
AfterFn_ReturnsOnError(err) == IF err # NoError THEN "returned" ELSE "Commit"

\* if err := fn(txCtx); err != nil { tx.Rollback() ... }; tx.Commit()
AfterFn(err) == IF err # NoError THEN "Rollback" ELSE "Commit"

\* WithTransaction returns err from call c
WithTransaction_Return(c, call, err) ==
    /\ wt' = [wt EXCEPT ![c] = [call EXCEPT !.pc = "returned", !.err = err]]
    /\ last' = [op |-> "WithTransaction", call |-> c, ctx |-> Background,
                fnCalls |-> call.fnCalls, fnErr |-> call.fnErr, wrote |-> FALSE,
                err |-> err]

\* tx, err := m.db.BeginTx(ctx, nil)
WithTransaction_BeginTx(c, fails) ==
    /\ wt[c].pc = "BeginTx"
    /\ IF fails
       THEN WithTransaction_Return(c, wt[c],
                                   Errorf("failed to begin transaction", DriverError))
       ELSE /\ wt' = [wt EXCEPT ![c].pc = "fn", ![c].tx = "open"]
            /\ UNCHANGED last
    /\ UNCHANGED <<db, txs, agg, deleted, purged, now, pool, mig, run>>

\* err := fn(txCtx)
WithTransaction_Fn(c, err) ==
    /\ wt[c].pc = "fn"
    /\ LET call == [wt[c] EXCEPT !.fnCalls = @ + 1, !.fnErr = err]
       IN  IF AfterFn(err) = "returned"
           THEN WithTransaction_Return(c, call, err)
           ELSE /\ wt' = [wt EXCEPT ![c] = [call EXCEPT !.pc = AfterFn(err)]]
                /\ UNCHANGED last
    /\ UNCHANGED <<db, txs, agg, deleted, purged, now, pool, mig, run>>

\* rbErr := tx.Rollback()
WithTransaction_Rollback(c, fails) ==
    /\ wt[c].pc = "Rollback"
    /\ WithTransaction_Return(c,
            [wt[c] EXCEPT !.rollbacks = @ + 1,
                          !.tx = IF fails THEN "rollbackFailed" ELSE "rolledBack"],
            Returns(wt[c].fnErr, fails))
    /\ UNCHANGED <<db, txs, agg, deleted, purged, now, pool, mig, run>>

\* err := tx.Commit()
WithTransaction_Commit(c, fails) ==
    /\ wt[c].pc = "Commit"
    /\ WithTransaction_Return(c,
            [wt[c] EXCEPT !.commits = @ + 1,
                          !.tx = IF fails THEN "commitFailed" ELSE "committed"],
            Returns(wt[c].fnErr, fails))
    /\ UNCHANGED <<db, txs, agg, deleted, purged, now, pool, mig, run>>

----------------------------------------------------------------------------
(* Application errors: internal/pkg/errors.  The package has its own         *)
(* sentinels, apart from those of the repository package, and AppError, an   *)
(* error with an HTTP status code and a cause.                                *)

StatusOK == 200
StatusBadRequest == 400
StatusUnauthorized == 401
StatusForbidden == 403
StatusNotFound == 404
StatusConflict == 409
StatusInternalServerError == 500

\* errors.New(...) of the package, by the name of the variable
Sentinel(name) == [kind |-> "errors." \o name]

Sentinels ==
    {Sentinel(n) : n \in {"ErrNotFound", "ErrInvalidInput", "ErrUnauthorized", "ErrForbidden",
                          "ErrInternal", "ErrDuplicate", "ErrDatabase"}}

\* errors.New("other"): an error of no class
OtherError == [kind |-> "errors.New"]

\* &AppError{Code: code, StatusCode: statusCode, Cause: cause}
AppError(code, statusCode, cause) ==
    [kind |-> "AppError", Code |-> code, StatusCode |-> statusCode, Cause |-> cause]

NotFound == AppError("NOT_FOUND", StatusNotFound, NoError)
Validation == AppError("VALIDATION_ERROR", StatusBadRequest, NoError)
ValidationFromErr(err) == AppError("VALIDATION_ERROR", StatusBadRequest, err)
Unauthorized == AppError("UNAUTHORIZED", StatusUnauthorized, NoError)
Forbidden == AppError("FORBIDDEN", StatusForbidden, NoError)
Internal(err) == AppError("INTERNAL_ERROR", StatusInternalServerError, err)
Duplicate == AppError("DUPLICATE_ERROR", StatusConflict, NoError)
Database(err) == AppError("DATABASE_ERROR", StatusInternalServerError, err)

\* (e *AppError) Wrap(err): the same error with err as its cause
Wrap(e, err) == AppError(e.Code, e.StatusCode, err)

\* Unwrap of an AppError and of an error fmt.Errorf made with %w; nil otherwise
Unwrap(err) ==
    IF err.kind = "AppError" THEN err.Cause
    ELSE IF err.kind = "wrapped" THEN err.cause
    ELSE NoError

\* isError: errors.Is(err, target) for an err that is not nil
RECURSIVE isError(_, _)
isError(err, target) ==
    IF err = NoError THEN FALSE
    ELSE err = target \/ isError(Unwrap(err), target)

\* errors.As(err, &appErr): the first AppError of the chain, nil when it has none
RECURSIVE ErrorsAs(_)
ErrorsAs(err) ==
    IF err = NoError THEN NoError
    ELSE IF err.kind = "AppError" THEN err
    ELSE ErrorsAs(Unwrap(err))

hasStatusCode(err, code) ==
    IF err = NoError THEN FALSE
    ELSE IF ErrorsAs(err) # NoError THEN ErrorsAs(err).StatusCode = code
    ELSE FALSE

IsNotFound(err) ==
    isError(err, Sentinel("ErrNotFound")) \/ hasStatusCode(err, StatusNotFound)

IsValidationError(err) ==
    isError(err, Sentinel("ErrInvalidInput")) \/ hasStatusCode(err, StatusBadRequest)

IsInternalError(err) ==
    isError(err, Sentinel("ErrInternal")) \/ hasStatusCode(err, StatusInternalServerError)

IsDuplicate(err) ==
    isError(err, Sentinel("ErrDuplicate")) \/ hasStatusCode(err, StatusConflict)

GetStatusCode(err) ==
    IF err = NoError THEN StatusOK
    ELSE IF ErrorsAs(err) # NoError THEN ErrorsAs(err).StatusCode
    ELSE StatusInternalServerError

\* a caller classifies err and maps it to a status
GetStatusCodeCall(err) ==
    /\ last' = [op |-> "GetStatusCode", arg |-> err, status |-> GetStatusCode(err)]
    /\ UNCHANGED <<db, txs, agg, deleted, purged, now, rest>>

----------------------------------------------------------------------------
(* Configuration: internal/pkg/config.  Load reads the environment, Validate *)
(* checks a Config.  The fields that neither reads back (DatabaseURL, the     *)
(* pool limits, TrustedProxies, RootAdminUsername, MaxUploadSize) are left    *)
(* out.                                                                       *)

\* strings.ToLower, on the strings of the model
ToLower(str) ==
    IF str = "Strict" THEN "strict"
    ELSE IF str = "DEBUG" THEN "debug"
    ELSE IF str = "On" THEN "on"
    ELSE str

\* strconv.Atoi(c.Port) returns no error
AtoiOK(str) == str = "8080"

\* a Config that passes Validate in development
GoodConfig ==
    [ Port |-> "8080", Env |-> "development",
      SessionSecret |-> "0123456789abcdef0123456789abcdef", SessionMaxAge |-> 24,
      CookieSecure |-> FALSE, CookieHttpOnly |-> TRUE, CookieSameSite |-> "strict",
      CSRFEnabled |-> TRUE, RootAdminPassword |-> "12345678",
      UploadPath |-> "./uploads", LogLevel |-> "info" ]

\* the Config values a caller makes by hand: every setting of the fields the
\* production rules read, and GoodConfig with one other field out of range
Configs ==
    [ Port : {"8080"},
      Env : {"development", "production"},
      SessionSecret : {"a-short-secret", "0123456789abcdef0123456789abcdef"},
      SessionMaxAge : {24},
      CookieSecure : BOOLEAN,
      CookieHttpOnly : BOOLEAN,
      CookieSameSite : {"strict", "Strict", "lax"},
      CSRFEnabled : BOOLEAN,
      RootAdminPassword : {"12345678"},
      UploadPath : {"./uploads"},
      LogLevel : {"debug", "info"} ]
    \cup { [GoodConfig EXCEPT !.Port = "http"],
           [GoodConfig EXCEPT !.Env = "staging"],
           [GoodConfig EXCEPT !.SessionSecret = ""],
           [GoodConfig EXCEPT !.SessionMaxAge = 0],
           [GoodConfig EXCEPT !.CookieSameSite = "any"],
           [GoodConfig EXCEPT !.RootAdminPassword = ""],
           [GoodConfig EXCEPT !.RootAdminPassword = "1234567"],
           [GoodConfig EXCEPT !.UploadPath = ""],
           [GoodConfig EXCEPT !.LogLevel = "verbose"] }

\* Config.Validate: the complaints it collects; mkdirFails: ensureDir fails
ValidationErrors(c, mkdirFails) ==
    (IF c.SessionSecret = "" THEN {"SESSION_SECRET is required"} ELSE {})
    \cup (IF c.RootAdminPassword = "" THEN {"ROOT_ADMIN_PASSWORD is required"}
          ELSE IF Len(c.RootAdminPassword) < 8 THEN {"ROOT_ADMIN_PASSWORD too short"}
          ELSE {})
    \cup (IF ~AtoiOK(c.Port) THEN {"PORT must be a valid number"} ELSE {})
    \cup (IF c.Env # "development" /\ c.Env # "production" THEN {"ENV"} ELSE {})
    \cup (IF c.LogLevel \notin {"debug", "info", "warn", "error"} THEN {"LOG_LEVEL"} ELSE {})
    \cup (IF c.SessionMaxAge <= 0 THEN {"SESSION_MAX_AGE"} ELSE {})
    \cup (IF ToLower(c.CookieSameSite) \notin {"strict", "lax", "none"}
          THEN {"COOKIE_SAMESITE"} ELSE {})
    \cup (IF c.UploadPath # "" /\ mkdirFails THEN {"UPLOAD_PATH"} ELSE {})
    \cup (IF c.Env = "production"
          THEN (IF Len(c.SessionSecret) < 32 THEN {"SESSION_SECRET in production"} ELSE {})
               \cup (IF c.CSRFEnabled = FALSE THEN {"CSRF_ENABLED in production"} ELSE {})
               \cup (IF c.CookieHttpOnly = FALSE THEN {"COOKIE_HTTPONLY in production"}
                     ELSE {})
               \cup (IF ToLower(c.CookieSameSite) # "strict"
                     THEN {"COOKIE_SAMESITE in production"} ELSE {})
               \cup (IF c.LogLevel = "debug" THEN {"LOG_LEVEL in production"} ELSE {})
          ELSE {})

\* Config.Validate: nil, or one error listing the complaints
Validate(c, mkdirFails) ==
    IF ValidationErrors(c, mkdirFails) # {}
    THEN [kind |-> "configuration validation failed",
          errors |-> ValidationErrors(c, mkdirFails)]
    ELSE NoError

getEnv(value, defaultValue) == IF value # "" THEN value ELSE defaultValue

getEnvBool(value, defaultValue) ==
    IF value # "" /\ ToLower(value) \in {"true", "1", "yes", "on"} THEN TRUE
    ELSE IF value # "" /\ ToLower(value) \in {"false", "0", "no", "off"} THEN FALSE
    ELSE defaultValue

\* the environments Load runs in: the value of each variable, "" when unset
Environments ==
    [ ENV : {"", "development", "production"},
      SESSION_SECRET : {"0123456789abcdef0123456789abcdef"},
      COOKIE_SECURE : {"", "On", "false", "maybe"},
      COOKIE_HTTPONLY : {"", "0"},
      COOKIE_SAMESITE : {"", "Strict"},
      CSRF_ENABLED : {"", "off"},
      ROOT_ADMIN_PASSWORD : {"12345678"},
      LOG_LEVEL : {"", "DEBUG"} ]

\* Load, with PORT, SESSION_MAX_AGE and UPLOAD_PATH unset
Load(env) ==
    LET cfg == [ Port |-> getEnv("", "8080"),
                 Env |-> getEnv(env.ENV, "development"),
                 SessionSecret |-> getEnv(env.SESSION_SECRET, ""),
                 SessionMaxAge |-> 24,
                 CookieSecure |-> getEnvBool(env.COOKIE_SECURE, FALSE),
                 CookieHttpOnly |-> getEnvBool(env.COOKIE_HTTPONLY, TRUE),
                 CookieSameSite |-> getEnv(env.COOKIE_SAMESITE, "strict"),
                 CSRFEnabled |-> getEnvBool(env.CSRF_ENABLED, TRUE),
                 RootAdminPassword |-> getEnv(env.ROOT_ADMIN_PASSWORD, ""),
                 UploadPath |-> getEnv("", "./uploads"),
                 LogLevel |-> ToLower(getEnv(env.LOG_LEVEL, "info")) ]
    IN  IF cfg.Env = "production" THEN [cfg EXCEPT !.CookieSecure = TRUE] ELSE cfg

\* cfg.Validate() on a Config the caller holds; env: what Load read when it made
\* the Config, None for a Config made by hand
ValidateCall(cfg, env, mkdirFails) ==
    /\ last' = [op |-> "Validate", cfg |-> cfg, env |-> env,
                err |-> Validate(cfg, mkdirFails)]
    /\ UNCHANGED <<db, txs, agg, deleted, purged, now, rest>>

----------------------------------------------------------------------------
(* The connection pool: DBManager.ConfigurePool.  maxOpen 0 is database/sql's *)
(* default, no limit on open connections; maxIdle 0 is its default of two     *)
(* idle connections, a negative maxIdle keeps none.                           *)

DefaultPool == [maxOpen |-> 0, maxIdle |-> 0]

\* db.maxIdleConnsLocked(): the idle connections the pool keeps
MaxIdleConns(p) ==
    IF p.maxIdle = 0 THEN 2 ELSE IF p.maxIdle < 0 THEN 0 ELSE p.maxIdle

\* m.db.SetMaxIdleConns(n): at most n idle connections, and no more than maxOpen
SetMaxIdleConns(p, n) ==
    LET q == [p EXCEPT !.maxIdle = IF n > 0 THEN n ELSE -1]
    IN  IF q.maxOpen > 0 /\ MaxIdleConns(q) > q.maxOpen
        THEN [q EXCEPT !.maxIdle = q.maxOpen]
        ELSE q

\* m.db.SetMaxOpenConns(n): at most n open connections; the idle limit follows
SetMaxOpenConns(p, n) ==
    LET q == [p EXCEPT !.maxOpen = IF n < 0 THEN 0 ELSE n]
    IN  IF q.maxOpen > 0 /\ MaxIdleConns(q) > q.maxOpen
        THEN SetMaxIdleConns(q, n)
        ELSE q

ConfigurePool(maxOpenConns, maxIdleConns) ==
    LET opened == IF maxOpenConns > 0 THEN SetMaxOpenConns(pool, maxOpenConns) ELSE pool
    IN  /\ pool' = IF maxIdleConns > 0 THEN SetMaxIdleConns(opened, maxIdleConns)
                   ELSE opened
        /\ last' = [op |-> "ConfigurePool", maxOpenConns |-> maxOpenConns,
                    maxIdleConns |-> maxIdleConns, before |-> pool]
        /\ UNCHANGED <<db, txs, agg, deleted, purged, now, mig, run, wt>>

----------------------------------------------------------------------------
(* Repositories: internal/pkg/repository.  Every method resolves its       *)
(* executor with GetExecer(ctx), runs its statement and translates the     *)
(* error.  fault: the statement fails in the driver before it runs.        *)

\* sql.NullString / sql.NullTime
Null == [Valid |-> FALSE, V |-> 0]
NotNull(x) == [Valid |-> TRUE, V |-> x]

\* what a repository call returned; ran: its statement reached the store, gone
\* (history): the junction rows the store removed with it, arg (history): the
\* record a Create was called with, as the caller filled it
Call(op, tbl, ctx, id, key, ran, rows, err, out) ==
    [ op |-> op, tbl |-> tbl, ctx |-> ctx, id |-> id, key |-> key, ran |-> ran,
      rows |-> rows, err |-> err, out |-> out, gone |-> {}, arg |-> None ]

JunctionRows(v) ==
    ({"project_members"} \X v.project_members)
        \cup ({"publication_authors"} \X v.publication_authors)
        \cup ({"project_publications"} \X v.project_publications)

\* sql.Result of an ExecContext that returned no error
Result(o) == [rows |-> o.rows, err |-> NoError]

\* SELECT ... FROM tbl WHERE id = $1, scanned by row.Scan
SqlSelectByID(v, tbl, id) ==
    IF id \in DOMAIN v[tbl] THEN Outcome(v, NoError, 1, id)
    ELSE Outcome(v, sqlErrNoRows, 0, 0)

\* the sequences that list every row of S once
RowOrders(S) ==
    {s \in [1..Cardinality(S) -> S] : \A x \in S : \E i \in DOMAIN s : s[i] = x}

\* a query that returns the rows of the table, linked or not
JoinedMembers_WithoutWhere(v, jt, parentID) == {v.lab_members[i] : i \in DOMAIN v.lab_members}

\* lab_members m INNER JOIN jt ON m.id = jt.member_id WHERE jt.<parent> = $1
JoinedMembers(v, jt, parentID) ==
    {v.lab_members[p[2]] : p \in {q \in v[jt] : q[1] = parentID /\ q[2] \in DOMAIN v.lab_members}}

\* publications p INNER JOIN project_publications pp ... WHERE pp.project_id = $1
JoinedPublications(v, projectID) ==
    {v.publications[p[2]] :
        p \in {q \in v.project_publications :
                    q[1] = projectID /\ q[2] \in DOMAIN v.publications}}

\* ORDER BY m.display_order ASC: rows of equal display_order come in any order
ByDisplayOrderAsc(S) ==
    {s \in RowOrders(S) :
        \A i, j \in DOMAIN s : i < j => s[i].display_order <= s[j].display_order}

\* ORDER BY p.year DESC: rows of equal year come in any order
ByYearDesc(S) ==
    {s \in RowOrders(S) : \A i, j \in DOMAIN s : i < j => s[i].year >= s[j].year}

\* ORDER BY created_at DESC: rows of equal created_at come in any order
ByCreatedAtDesc(S) ==
    {s \in RowOrders(S) : \A i, j \in DOMAIN s : i < j => s[i].created_at >= s[j].created_at}

\* ORDER BY is_alumni ASC, display_order ASC, created_at DESC: a comes before b.
\* The store keeps a bool as 0 or 1.
MemberBefore(a, b) ==
    LET alumni(m) == IF m.is_alumni THEN 1 ELSE 0
    IN  \/ alumni(a) < alumni(b)
        \/ /\ alumni(a) = alumni(b)
           /\ \/ a.display_order < b.display_order
              \/ /\ a.display_order = b.display_order
                 /\ a.created_at > b.created_at

\* an ORDER BY display_order ASC alone
MembersInOrder_ByDisplayOrderOnly(S) == ByDisplayOrderAsc(S)

\* the orders the ORDER BY of LabMember.GetAll allows
MembersInOrder(S) ==
    {s \in RowOrders(S) : \A i, j \in DOMAIN s : i < j => ~MemberBefore(s[j], s[i])}

\* ---- the generic shapes of the methods -----------------------------------

\* a SELECT of every column of the table
Scan_SelectsEveryColumn(tbl, row) == row

\* the columns a GetByID or GetAll selects and scans: users are read without
\* password_hash
Scan(tbl, row) ==
    IF tbl = "users"
    THEN [c \in {"id", "email", "role", "created_at", "updated_at"} |-> row[c]]
    ELSE row

\* GetByID: QueryRowContext + Scan, WrapError
GetByID(op, label, tbl, ctx, id, fault) ==
    LET v == ViewOf(GetExecer(ctx))
        o == Statement(ctx, fault, FALSE, SqlSelectByID(v, tbl, id))
    IN  /\ ctx \in Contexts
        /\ Install(ctx, fault, FALSE, o, {})
        /\ last' = Call(op, tbl, ctx, id, "", Ran(ctx, fault, FALSE), o.rows,
                        WrapError(o.err, label),
                        IF o.err = NoError THEN Scan(tbl, v[tbl][id]) ELSE None)
        /\ UNCHANGED <<agg, now, rest>>

\* the columns RETURNING hands back to Scan, which writes them into the entity
Returning(entity, stored) ==
    Assign(entity, [c \in {"id", "created_at", "updated_at"} \cap DOMAIN stored |-> stored[c]])

\* a Create that inserts the timestamps of the caller's record
Create_InsertsCallerTimestamps(op, label, tbl, ctx, entity, fault) ==
    LET v == ViewOf(GetExecer(ctx))
        o == Statement(ctx, fault, TRUE, SqlInsert(v, tbl, entity))
    IN  /\ ctx \in Contexts
        /\ Install(ctx, fault, TRUE, o, {})
        /\ last' = [Call(op, tbl, ctx, 0,
                         IF tbl \in UniqueTables THEN UniqueKey(tbl, entity) ELSE "",
                         Ran(ctx, fault, TRUE), o.rows,
                         WrapError(o.err, label),
                         IF o.err = NoError THEN Returning(entity, o.view[tbl][o.id])
                         ELSE None)
                        EXCEPT !.arg = entity]
        /\ UNCHANGED <<agg, now, rest>>

\* the rows of table tbl in view v, as GetByID would scan each
Rows(v, tbl) == {Scan(tbl, v[tbl][i]) : i \in DOMAIN v[tbl]}

\* GetAll and the other list queries: QueryContext, a Scan per row, WrapError;
\* rows: what the query yields when it runs
GetAll(op, label, tbl, ctx, rows, fault) ==
    LET v == ViewOf(GetExecer(ctx))
        o == Statement(ctx, fault, FALSE, Outcome(v, NoError, Len(rows), 0))
    IN  /\ ctx \in Contexts
        /\ Install(ctx, fault, FALSE, o, {})
        /\ last' = Call(op, tbl, ctx, 0, "", Ran(ctx, fault, FALSE), o.rows,
                        WrapError(o.err, label),
                        IF o.err = NoError THEN rows ELSE None)
        /\ UNCHANGED <<agg, now, rest>>

\* Create: INSERT ... VALUES (the caller's columns, datetime('now'), datetime('now'))
\* RETURNING id, created_at, updated_at, scanned into the entity
Create(op, label, tbl, ctx, entity, fault) ==
    LET v == ViewOf(GetExecer(ctx))
        row == Assign(entity, [created_at |-> now, updated_at |-> now])
        o == Statement(ctx, fault, TRUE, SqlInsert(v, tbl, row))
    IN  /\ ctx \in Contexts
        /\ Install(ctx, fault, TRUE, o, {})
        /\ last' = [Call(op, tbl, ctx, 0,
                         IF tbl \in UniqueTables THEN UniqueKey(tbl, row) ELSE "",
                         Ran(ctx, fault, TRUE), o.rows,
                         WrapError(o.err, label),
                         IF o.err = NoError THEN Returning(entity, o.view[tbl][o.id])
                         ELSE None)
                        EXCEPT !.arg = entity]
        /\ UNCHANGED <<agg, now, rest>>

\* Update: UPDATE ... WHERE id = $n RETURNING updated_at; an empty result is
\* sql.ErrNoRows, answered with ErrNotFound
Update(op, label, tbl, ctx, entity, set, fault) ==
    LET v == ViewOf(GetExecer(ctx))
        u == SqlUpdate(v, tbl, {entity.id}, set)
        o == Statement(ctx, fault, TRUE,
                       IF u.err = NoError /\ u.rows = 0
                       THEN Outcome(u.view, sqlErrNoRows, 0, 0) ELSE u)
    IN  /\ ctx \in Contexts
        /\ Install(ctx, fault, TRUE, o, {})
        /\ last' = Call(op, tbl, ctx, entity.id, "", Ran(ctx, fault, TRUE), o.rows,
                        IF o.err = sqlErrNoRows THEN ErrNotFound
                        ELSE WrapError(o.err, label),
                        IF o.err = NoError
                        THEN Assign(entity, [updated_at |-> set.updated_at])
                        ELSE None)
        /\ UNCHANGED <<agg, now, rest>>

\* the methods that ExecContext one UPDATE by id or key and CheckRowsAffected(result, 1)
ExecUpdate(op, label, tbl, ctx, id, key, ids, set, fault) ==
    LET v == ViewOf(GetExecer(ctx))
        o == Statement(ctx, fault, TRUE,
                       SqlUpdate(v, tbl, ids, set))
    IN  /\ ctx \in Contexts
        /\ Install(ctx, fault, TRUE, o, {})
        /\ last' = Call(op, tbl, ctx, id, key, Ran(ctx, fault, TRUE), o.rows,
                        IF o.err # NoError THEN WrapError(o.err, label)
                        ELSE CheckRowsAffected(Result(o), 1),
                        None)
        /\ UNCHANGED <<agg, now, rest>>

\* Delete: DELETE FROM tbl WHERE id = $1, CheckRowsAffected(result, 1)
Delete(op, label, tbl, ctx, id, fault) ==
    LET v == ViewOf(GetExecer(ctx))
        o == Statement(ctx, fault, TRUE, SqlDelete(v, tbl, {id}))
        err == IF o.err # NoError THEN WrapError(o.err, label)
               ELSE CheckRowsAffected(Result(o), 1)
    IN  /\ ctx \in Contexts
        /\ Install(ctx, fault, TRUE, o, IF err = NoError THEN {<<tbl, id>>} ELSE {})
        /\ last' = [Call(op, tbl, ctx, id, "", Ran(ctx, fault, TRUE), o.rows, err, None)
                        EXCEPT !.gone = JunctionRows(v) \ JunctionRows(o.view)]
        /\ UNCHANGED <<agg, now, rest>>

\* Link*: INSERT ... ON CONFLICT DO NOTHING, the result is not inspected
Link(op, label, jt, ctx, a, b, fault) ==
    LET v == ViewOf(GetExecer(ctx))
        o == Statement(ctx, fault, TRUE, SqlInsertJunction(v, jt, a, b))
    IN  /\ ctx \in Contexts
        /\ Install(ctx, fault, TRUE, o, {})
        /\ last' = Call(op, jt, ctx, <<a, b>>, "", Ran(ctx, fault, TRUE), o.rows,
                        IF o.err # NoError THEN WrapError(o.err, label) ELSE NoError,
                        None)
        /\ UNCHANGED <<agg, now, rest>>

\* Unlink*: DELETE ... WHERE a = $1 AND b = $2, CheckRowsAffected(result, 1)
Unlink(op, label, jt, ctx, a, b, fault) ==
    LET v == ViewOf(GetExecer(ctx))
        o == Statement(ctx, fault, TRUE, SqlDeleteJunction(v, jt, a, b))
    IN  /\ ctx \in Contexts
        /\ Install(ctx, fault, TRUE, o, {})
        /\ last' = Call(op, jt, ctx, <<a, b>>, "", Ran(ctx, fault, TRUE), o.rows,
                        IF o.err # NoError THEN WrapError(o.err, label)
                        ELSE CheckRowsAffected(Result(o), 1),
                        None)
        /\ UNCHANGED <<agg, now, rest>>

\* ---- the values callers pass ----------------------------------------------

ProjectStatuses == {"active", "completed"}

Projects ==
    {[id |-> i, title |-> "AI Lab", description |-> "d", status |-> st,
      created_at |-> 0, updated_at |-> 0] : i \in {0} \cup Ids, st \in ProjectStatuses}

LabMembers ==
    {[id |-> i, name |-> "A. Researcher", role |-> r, email |-> Null, bio |-> Null,
      photo_url |-> Null, personal_page_content |-> Null, research_interests |-> Null,
      is_alumni |-> a, display_order |-> d, created_at |-> 0, updated_at |-> 0] :
        i \in {0} \cup Ids, r \in {"PhD"}, a \in {FALSE}, d \in {1, 2}}

Publications ==
    {[id |-> i, title |-> "Paper", authors_text |-> "A", venue |-> Null, year |-> y,
      url |-> Null, created_at |-> 0, updated_at |-> 0] :
        i \in {0} \cup Ids, y \in {2020, 2023}}

Emails == {"a@lab.org", "b@lab.org"}

UserRoles == {"normal", "root"}

\* models.UserWithPassword, the argument of UserRepository.Create
UsersWithPassword ==
    {[id |-> 0, email |-> e, role |-> r, password_hash |-> "hash-1",
      created_at |-> 0, updated_at |-> 0] : e \in Emails, r \in UserRoles}

\* models.User, the argument of UserRepository.Update
Users ==
    {[id |-> i, email |-> e, role |-> r, created_at |-> 0, updated_at |-> 0] :
        i \in Ids, e \in Emails, r \in UserRoles}

NewsItems ==
    {[id |-> i, title |-> "Talk", content |-> "c", published_at |-> pa,
      is_published |-> ip, created_at |-> 0, updated_at |-> 0] :
        i \in {0} \cup Ids, pa \in {Null} \cup {NotNull(t) : t \in 1..MaxTime},
        ip \in BOOLEAN}

SectionKeys == {"overview", "mission"}

HomepageSections ==
    {[id |-> i, section_key |-> k, title |-> "Title", content |-> "c",
      display_order |-> 0, updated_at |-> 0] : i \in {0} \cup Ids, k \in SectionKeys}

Faults == BOOLEAN

\* ---- ProjectRepository: project_repository.go -----------------------------

ProjectGetByID(ctx, id, fault) ==
    GetByID("Project.GetByID", "get project by id", "projects", ctx, id, fault)

ProjectCreate(ctx, proj, fault) ==
    Create("Project.Create", "create project", "projects", ctx, proj, fault)

ProjectUpdate(ctx, proj, fault) ==
    Update("Project.Update", "update project", "projects", ctx, proj,
           [title |-> proj.title, description |-> proj.description,
            status |-> proj.status, updated_at |-> now], fault)

ProjectDelete(ctx, id, fault) ==
    Delete("Project.Delete", "delete project", "projects", ctx, id, fault)

LinkMember(ctx, projectID, memberID, fault) ==
    Link("Project.LinkMember", "link member to project", "project_members",
         ctx, projectID, memberID, fault)

UnlinkMember(ctx, projectID, memberID, fault) ==
    Unlink("Project.UnlinkMember", "unlink member from project", "project_members",
           ctx, projectID, memberID, fault)

LinkPublication(ctx, projectID, publicationID, fault) ==
    Link("Project.LinkPublication", "link publication to project",
         "project_publications", ctx, projectID, publicationID, fault)

UnlinkPublication(ctx, projectID, publicationID, fault) ==
    Unlink("Project.UnlinkPublication", "unlink publication from project",
           "project_publications", ctx, projectID, publicationID, fault)

\* ---- LabMemberRepository: lab_member_repository.go ------------------------

LabMemberGetByID(ctx, id, fault) ==
    GetByID("LabMember.GetByID", "get lab member by id", "lab_members", ctx, id, fault)

LabMemberCreate(ctx, member, fault) ==
    Create("LabMember.Create", "create lab member", "lab_members", ctx, member, fault)

LabMemberUpdate(ctx, member, fault) ==
    Update("LabMember.Update", "update lab member", "lab_members", ctx, member,
           [name |-> member.name, role |-> member.role, email |-> member.email,
            bio |-> member.bio, photo_url |-> member.photo_url,
            personal_page_content |-> member.personal_page_content,
            research_interests |-> member.research_interests,
            is_alumni |-> member.is_alumni, display_order |-> member.display_order,
            updated_at |-> now], fault)

LabMemberDelete(ctx, id, fault) ==
    Delete("LabMember.Delete", "delete lab member", "lab_members", ctx, id, fault)

MarkAsAlumni(ctx, id, isAlumni, fault) ==
    ExecUpdate("LabMember.MarkAsAlumni", "mark member as alumni", "lab_members",
               ctx, id, "", {id}, [is_alumni |-> isAlumni, updated_at |-> now], fault)

UpdatePhotoURL(ctx, id, photoURL, fault) ==
    ExecUpdate("LabMember.UpdatePhotoURL", "update member photo", "lab_members",
               ctx, id, "", {id}, [photo_url |-> NotNull(photoURL), updated_at |-> now],
               fault)

\* WHERE role = $1 AND is_alumni = false, with every member listed whatever its
\* alumni status
Active_AnyStatus(row, role) == row.role = role

\* WHERE role = $1 AND is_alumni = false
Active(row, role) == row.role = role /\ ~row.is_alumni

\* ORDER BY display_order ASC, created_at DESC: the rows of either listing share
\* is_alumni, so MembersInOrder orders them by the two remaining keys.  The role
\* asked for is kept as the key of the call.
GetByRole(ctx, role, fault) ==
    \E rows \in MembersInOrder(
                    {r \in Rows(ViewOf(GetExecer(ctx)), "lab_members") : Active(r, role)}) :
        LET v == ViewOf(GetExecer(ctx))
            o == Statement(ctx, fault, FALSE, Outcome(v, NoError, Len(rows), 0))
        IN  /\ ctx \in Contexts
            /\ Install(ctx, fault, FALSE, o, {})
            /\ last' = Call("LabMember.GetByRole", "lab_members", ctx, 0, role,
                            Ran(ctx, fault, FALSE), o.rows,
                            WrapError(o.err, "get lab members by role"),
                            IF o.err = NoError THEN rows ELSE None)
            /\ UNCHANGED <<agg, now, rest>>

\* WHERE is_alumni = true ORDER BY display_order ASC, created_at DESC
GetAlumni(ctx, fault) ==
    \E rows \in MembersInOrder(
                    {r \in Rows(ViewOf(GetExecer(ctx)), "lab_members") : r.is_alumni}) :
        GetAll("LabMember.GetAlumni", "get alumni", "lab_members", ctx, rows, fault)

LabMemberGetAll(ctx, fault) ==
    \E rows \in MembersInOrder(Rows(ViewOf(GetExecer(ctx)), "lab_members")) :
        GetAll("LabMember.GetAll", "get all lab members", "lab_members", ctx, rows, fault)

\* ---- PublicationRepository -------------------------------------------------

PublicationGetByID(ctx, id, fault) ==
    GetByID("Publication.GetByID", "get publication by id", "publications", ctx, id, fault)

PublicationCreate(ctx, pub, fault) ==
    Create("Publication.Create", "create publication", "publications", ctx, pub, fault)

PublicationUpdate(ctx, pub, fault) ==
    Update("Publication.Update", "update publication", "publications", ctx, pub,
           [title |-> pub.title, authors_text |-> pub.authors_text, venue |-> pub.venue,
            year |-> pub.year, url |-> pub.url, updated_at |-> now], fault)

PublicationDelete(ctx, id, fault) ==
    Delete("Publication.Delete", "delete publication", "publications", ctx, id, fault)

LinkAuthor(ctx, publicationID, memberID, fault) ==
    Link("Publication.LinkAuthor", "link author to publication", "publication_authors",
         ctx, publicationID, memberID, fault)

UnlinkAuthor(ctx, publicationID, memberID, fault) ==
    Unlink("Publication.UnlinkAuthor", "unlink author from publication",
           "publication_authors", ctx, publicationID, memberID, fault)

\* ---- UserRepository --------------------------------------------------------

UserGetByID(ctx, id, fault) ==
    GetByID("User.GetByID", "get user by id", "users", ctx, id, fault)

\* SELECT id, email, role, password_hash, ... WHERE email = $1: the one method that
\* scans password_hash; QueryRowContext scans the first row of the result
UserGetByEmail(ctx, email, fault) ==
    LET v == ViewOf(GetExecer(ctx))
        hit == {i \in DOMAIN v.users : v.users[i].email = email}
    IN  \E i \in IF hit = {} THEN {0} ELSE hit :
            LET o == Statement(ctx, fault, FALSE,
                               IF hit = {} THEN Outcome(v, sqlErrNoRows, 0, 0)
                               ELSE Outcome(v, NoError, 1, i))
            IN  /\ ctx \in Contexts
                /\ Install(ctx, fault, FALSE, o, {})
                /\ last' = Call("User.GetByEmail", "users", ctx, 0, email,
                                Ran(ctx, fault, FALSE), o.rows,
                                WrapError(o.err, "get user by email"),
                                IF o.err = NoError THEN v.users[i] ELSE None)
                /\ UNCHANGED <<agg, now, rest>>

\* SELECT id, email, role, created_at, updated_at FROM users ORDER BY created_at DESC
UserGetAll(ctx, fault) ==
    \E rows \in ByCreatedAtDesc(Rows(ViewOf(GetExecer(ctx)), "users")) :
        GetAll("User.GetAll", "get all users", "users", ctx, rows, fault)

\* IsDuplicateError(err) is answered with ErrDuplicate, as WrapError answers it
UserCreate(ctx, user, fault) ==
    Create("User.Create", "create user", "users", ctx, user, fault)

UserUpdate(ctx, user, fault) ==
    Update("User.Update", "update user", "users", ctx, user,
           [email |-> user.email, role |-> user.role, updated_at |-> now], fault)

UpdatePassword(ctx, id, passwordHash, fault) ==
    ExecUpdate("User.UpdatePassword", "update password", "users", ctx, id, "", {id},
               [password_hash |-> passwordHash, updated_at |-> now], fault)

UserDelete(ctx, id, fault) ==
    Delete("User.Delete", "delete user", "users", ctx, id, fault)

\* ---- NewsRepository --------------------------------------------------------

NewsGetByID(ctx, id, fault) ==
    GetByID("News.GetByID", "get news by id", "news", ctx, id, fault)

\* either branch inserts news.PublishedAt: NULL when it is not Valid
NewsCreate(ctx, news, fault) ==
    Create("News.Create", "create news", "news", ctx, news, fault)

NewsUpdate(ctx, news, fault) ==
    Update("News.Update", "update news", "news", ctx, news,
           [title |-> news.title, content |-> news.content,
            published_at |-> news.published_at, is_published |-> news.is_published,
            updated_at |-> now], fault)

NewsDelete(ctx, id, fault) ==
    Delete("News.Delete", "delete news", "news", ctx, id, fault)

\* SET is_published = true, updated_at = datetime('now'): published_at is kept
Publish_KeepsPublishedAt(ctx, id, fault) ==
    ExecUpdate("News.Publish", "publish news", "news", ctx, id, "", {id},
               [is_published |-> TRUE, updated_at |-> now], fault)

Publish(ctx, id, fault) ==
    ExecUpdate("News.Publish", "publish news", "news", ctx, id, "", {id},
               [is_published |-> TRUE, published_at |-> NotNull(now), updated_at |-> now],
               fault)

Unpublish(ctx, id, fault) ==
    ExecUpdate("News.Unpublish", "unpublish news", "news", ctx, id, "", {id},
               [is_published |-> FALSE, updated_at |-> now], fault)

\* a WHERE clause that looks at is_published only
Visible_WithoutSchedule(row, t) == row.is_published

\* WHERE is_published = true AND (published_at IS NULL OR published_at <= datetime('now'))
Visible(row, t) ==
    /\ row.is_published
    /\ \/ ~row.published_at.Valid
       \/ row.published_at.V <= t

\* CASE WHEN published_at IS NOT NULL THEN published_at ELSE created_at END
EffectiveTime(row) == IF row.published_at.Valid THEN row.published_at.V ELSE row.created_at

ByEffectiveTimeDesc(S) ==
    {s \in RowOrders(S) : \A i, j \in DOMAIN s : i < j => EffectiveTime(s[i]) >= EffectiveTime(s[j])}

\* LIMIT n: the first n rows; a negative n is no limit
Limit(rows, n) ==
    IF n < 0 \/ n >= Len(rows) THEN rows ELSE SubSeq(rows, 1, n)

GetPublished(ctx, limit, fault) ==
    \E rows \in ByEffectiveTimeDesc(
                    {r \in Rows(ViewOf(GetExecer(ctx)), "news") : Visible(r, now)}) :
        GetAll("News.GetPublished", "get published news", "news", ctx,
               Limit(rows, limit), fault)

\* WHERE is_published = false
Draft(row) == ~row.is_published

\* SELECT ... FROM news WHERE is_published = false ORDER BY created_at DESC
GetDrafts(ctx, fault) ==
    \E rows \in ByCreatedAtDesc({r \in Rows(ViewOf(GetExecer(ctx)), "news") : Draft(r)}) :
        GetAll("News.GetDrafts", "get draft news", "news", ctx, rows, fault)

\* models.News.IsPublishedNow: time.Now() is read once for Before and once more for
\* Equal; t2 is the second reading, now the first
IsPublishedNow(n, t2) ==
    /\ t2 \in now..MaxTime
    /\ now' = t2
    /\ last' = [op |-> "News.IsPublishedNow", arg |-> n, t1 |-> now, t2 |-> t2,
                out |-> IF ~n.is_published THEN FALSE
                        ELSE IF ~n.published_at.Valid THEN FALSE
                        ELSE n.published_at.V < now \/ n.published_at.V = t2]
    /\ UNCHANGED <<db, txs, agg, deleted, purged, rest>>

\* time passes
Tick ==
    /\ now < MaxTime
    /\ now' = now + 1
    /\ UNCHANGED <<db, txs, agg, last, deleted, purged, rest>>

\* ---- HomepageRepository: homepage_repository.go ----------------------------

HomepageGetByID(ctx, id, fault) ==
    GetByID("Homepage.GetByID", "get homepage section by id", "homepage_sections",
            ctx, id, fault)

\* isDuplicateKeyError matches the driver's message; an error it misses reaches
\* WrapError, which answers the same violation with ErrDuplicate by its code
HomepageCreate(ctx, section, fault) ==
    Create("Homepage.Create", "create homepage section", "homepage_sections",
           ctx, section, fault)

\* section_key is not among the columns Update sets
HomepageUpdate(ctx, section, fault) ==
    Update("Homepage.Update", "update homepage section", "homepage_sections",
           ctx, section,
           [title |-> section.title, content |-> section.content,
            display_order |-> section.display_order, updated_at |-> now], fault)

HomepageDelete(ctx, id, fault) ==
    Delete("Homepage.Delete", "delete homepage section", "homepage_sections",
           ctx, id, fault)

UpdateContent(ctx, id, title, content, fault) ==
    ExecUpdate("Homepage.UpdateContent", "update section content", "homepage_sections",
               ctx, id, "", {id},
               [title |-> title, content |-> content, updated_at |-> now], fault)

UpdateContentByKey(ctx, key, title, content, fault) ==
    LET t == ViewOf(GetExecer(ctx)).homepage_sections
    IN  ExecUpdate("Homepage.UpdateContentByKey", "update section content by key",
                   "homepage_sections", ctx, 0, key,
                   {i \in DOMAIN t : t[i].section_key = key},
                   [title |-> title, content |-> content, updated_at |-> now], fault)

\* ---- the aggregate fetches ------------------------------------------------
\* GetWithRelations / GetWithAuthors run their queries one after the other on the
\* executor of ctx; other callers' statements may come in between.

IdleAgg ==
    [pc |-> "idle", op |-> "", ctx |-> Background, id |-> 0, primary |-> None,
     members |-> <<>>]

\* what an aggregate fetch returned: stmts counts the queries the call issued;
\* failed and cause (history) are the number of the query that returned an error,
\* 0 if none, and that error
AggCall(op, ctx, id, failed, cause, stmts, err, out) ==
    [ op |-> op, ctx |-> ctx, id |-> id, failed |-> failed, cause |-> cause,
      stmts |-> stmts, err |-> err, out |-> out ]

\* the primary lookup, r.GetByID(ctx, id), of either aggregate
AggGetByID(op, label, tbl, next, ctx, id, fault) ==
    LET v == ViewOf(GetExecer(ctx))
        o == Statement(ctx, fault, FALSE, SqlSelectByID(v, tbl, id))
    IN  /\ agg.pc = "idle"
        /\ ctx \in Contexts
        /\ Install(ctx, fault, FALSE, o, {})
        /\ IF o.err # NoError
           THEN /\ last' = AggCall(op, ctx, id, 1, o.err, 1, WrapError(o.err, label), None)
                /\ agg' = agg
           ELSE /\ agg' = [pc |-> next, op |-> op, ctx |-> ctx, id |-> id,
                           primary |-> v[tbl][id], members |-> <<>>]
                /\ last' = last
        /\ UNCHANGED <<now, rest>>

\* a related-collection query of an aggregate: rows is what it yields when it runs;
\* an error ends the fetch with a nil result
AggQuery_KeepsPartialResult(pc, label, next, rows, fault) ==
    LET o == Statement(agg.ctx, fault, FALSE, Outcome(ViewOf(GetExecer(agg.ctx)), NoError, 0, 0))
        n == IF pc = "GetPublications" THEN 3 ELSE 2
    IN  /\ agg.pc = pc
        /\ Install(agg.ctx, fault, FALSE, o, {})
        /\ IF next = "return" \/ o.err # NoError
           THEN /\ last' = AggCall(agg.op, agg.ctx, agg.id,
                        IF o.err # NoError THEN n ELSE 0, o.err, n, NoError,
                        IF pc = "GetPublications"
                        THEN [primary |-> agg.primary, Members |-> agg.members,
                              Publications |-> IF o.err = NoError THEN rows ELSE <<>>]
                        ELSE IF pc = "GetAuthors"
                        THEN [primary |-> agg.primary,
                              Authors |-> IF o.err = NoError THEN rows ELSE <<>>]
                        ELSE [primary |-> agg.primary, Members |-> <<>>,
                              Publications |-> <<>>])
                /\ agg' = IdleAgg
           ELSE /\ agg' = [agg EXCEPT !.pc = next, !.members = rows]
                /\ last' = last
        /\ UNCHANGED <<now, rest>>

AggQuery(pc, label, next, rows, fault) ==
    LET o == Statement(agg.ctx, fault, FALSE, Outcome(ViewOf(GetExecer(agg.ctx)), NoError, 0, 0))
        n == IF pc = "GetPublications" THEN 3 ELSE 2
    IN  /\ agg.pc = pc
        /\ Install(agg.ctx, fault, FALSE, o, {})
        /\ IF o.err # NoError
           THEN /\ last' = AggCall(agg.op, agg.ctx, agg.id, n, o.err, n,
                                   WrapError(o.err, label), None)
                /\ agg' = IdleAgg
           ELSE IF next = "return"
           THEN /\ last' = AggCall(agg.op, agg.ctx, agg.id, 0, NoError, n, NoError,
                        IF pc = "GetPublications"
                        THEN [primary |-> agg.primary, Members |-> agg.members,
                              Publications |-> rows]
                        ELSE [primary |-> agg.primary, Authors |-> rows])
                /\ agg' = IdleAgg
           ELSE /\ agg' = [agg EXCEPT !.pc = next, !.members = rows]
                /\ last' = last
        /\ UNCHANGED <<now, rest>>

GetWithRelations_GetByID(ctx, id, fault) ==
    AggGetByID("Project.GetWithRelations", "get project by id", "projects",
               "GetMembers", ctx, id, fault)

GetWithRelations_GetMembers(fault) ==
    \E rows \in ByDisplayOrderAsc(
                    JoinedMembers(ViewOf(GetExecer(agg.ctx)), "project_members", agg.id)) :
        AggQuery("GetMembers", "get project members", "GetPublications", rows, fault)

GetWithRelations_GetPublications(fault) ==
    \E rows \in ByYearDesc(JoinedPublications(ViewOf(GetExecer(agg.ctx)), agg.id)) :
        AggQuery("GetPublications", "get project publications", "return", rows, fault)

GetWithAuthors_GetByID(ctx, id, fault) ==
    AggGetByID("Publication.GetWithAuthors", "get publication by id", "publications",
               "GetAuthors", ctx, id, fault)

GetWithAuthors_GetAuthors(fault) ==
    \E rows \in ByDisplayOrderAsc(
                    JoinedMembers(ViewOf(GetExecer(agg.ctx)), "publication_authors", agg.id)) :
        AggQuery("GetAuthors", "get publication authors", "return", rows, fault)

----------------------------------------------------------------------------
(* Migrations: internal/pkg/migrations/runner.go.  A directory holds files    *)
(* <version>_<name>.sql; the store keeps schema_migrations, whose primary key *)
(* is the version, and what the migrations' SQL made: here one table t and    *)
(* the rows inserted into it.                                                 *)

Runners == 1..MaxRunners

\* the statements a migration file holds, by the name of the file
FileContent(name) ==
    IF name = "schema" THEN "CREATE TABLE t"
    ELSE IF name = "seed" THEN "INSERT INTO t"
    ELSE "THIS IS NOT VALID SQL"

MigrationNames == {"broken", "schema", "seed"}

\* parseMigrationFile: the Migration of the file <version>_<name>.sql
Migration(version, name) ==
    [Version |-> version, Name |-> name, SQL |-> FileContent(name)]

MigrationFiles == {Migration(v, n) : v \in 1..MaxVersion, n \in MigrationNames}

\* the directories a runner is given: a missing or empty one, or up to MaxFiles files
MigrationDirs == {d \in SUBSET MigrationFiles : Cardinality(d) <= MaxFiles}

\* os.ReadDir returns the files sorted by filename
FileRank(m) ==
    3 * m.Version + (IF m.Name = "broken" THEN 0 ELSE IF m.Name = "schema" THEN 1 ELSE 2)

\* loadMigrations: the files of the directory, sorted by version; files of one
\* version keep the order of their filenames
loadMigrations(dir) ==
    CHOOSE s \in [1..Cardinality(dir) -> dir] :
        \A i, j \in 1..Cardinality(dir) :
            i < j => /\ s[i] # s[j]
                     /\ s[i].Version <= s[j].Version
                     /\ s[i].Version = s[j].Version => FileRank(s[i]) < FileRank(s[j])

\* the store before any Run; lock: the runner whose transaction holds the write
\* lock; commits: history, the times a migration's SQL was committed
EmptyStore ==
    [ tracking |-> FALSE, schema_migrations |-> <<>>, t |-> FALSE, rows |-> 0,
      lock |-> 0, commits |-> [m \in MigrationFiles |-> 0] ]

\* what a transaction reads and writes of the store
Contents(store) ==
    [ schema_migrations |-> store.schema_migrations, t |-> store.t, rows |-> store.rows ]

Recorded(c) == {c.schema_migrations[k] : k \in 1..Len(c.schema_migrations)}

\* tx.Exec(m.SQL): the contents after the statement, or the error it fails with
ExecSQL(c, sql) ==
    IF sql = "CREATE TABLE t"
    THEN IF c.t THEN [err |-> DriverError, contents |-> c]
         ELSE [err |-> NoError, contents |-> [c EXCEPT !.t = TRUE]]
    ELSE IF sql = "INSERT INTO t"
    THEN IF ~c.t THEN [err |-> DriverError, contents |-> c]
         ELSE [err |-> NoError, contents |-> [c EXCEPT !.rows = @ + 1]]
    ELSE [err |-> DriverError, contents |-> c]

\* version INTEGER PRIMARY KEY: a schema_migrations without the constraint
RecordOK_NoPrimaryKey(c, version) == TRUE

\* INSERT INTO schema_migrations (version) VALUES (?) under version INTEGER PRIMARY KEY
RecordOK(c, version) == version \notin Recorded(c)

\* a loop of Run that applies a migration whether its version is recorded or not
Pending_IgnoresApplied(m, applied) == TRUE

\* if _, ok := applied[migration.Version]; ok { continue }
Pending(m, applied) == m.Version \notin applied

\* an applyMigration that runs its statements outside a transaction
Rollback_KeepsWrites(committed, written) == written

\* defer tx.Rollback(): the contents of the store once the transaction is undone
Rollback(committed, written) == committed

\* the store holding the contents c
WithContents(c) ==
    [mig EXCEPT !.schema_migrations = c.schema_migrations, !.t = c.t, !.rows = c.rows]

\* the store once the transaction that held the write lock ended with the contents c
Ended_Tx(c) == [WithContents(c) EXCEPT !.lock = 0]

NoRunner ==
    [ pc |-> "none", dir |-> {}, runs |-> 0, ok |-> FALSE, migrations |-> <<>>,
      applied |-> {}, i |-> 0, tx |-> None, did |-> {} ]

\* NewRunner(db, migrationsDir)
NewRunner(r, migrationsDir) ==
    /\ run[r].pc = "none"
    /\ run' = [run EXCEPT ![r] = [NoRunner EXCEPT !.pc = "idle", !.dir = migrationsDir]]
    /\ UNCHANGED <<db, txs, agg, last, deleted, purged, now, pool, mig, wt>>

\* what Run returns, and the state it leaves the runner in; did: the positions
\* of the migrations this Run applied
RunReturns(r, err, m, store) ==
    /\ run' = [run EXCEPT ![r] = [@ EXCEPT !.pc = "idle", !.runs = @ + 1,
                                           !.ok = (err = NoError), !.tx = None]]
    /\ mig' = store
    /\ last' = [op |-> "Run", runner |-> r, err |-> err, migration |-> m,
                at |-> run[r].i, did |-> run[r].did, before |-> Contents(mig),
                again |-> run[r].ok]
    /\ UNCHANGED <<db, txs, agg, deleted, purged, now, pool, wt>>

\* the error of Run when applyMigration fails: it names the migration
ApplyError(m, msg, cause) ==
    Errorf(<<"failed to apply migration", m.Version, m.Name>>, Errorf(msg, cause))

\* Run, up to loadMigrations: PRAGMA foreign_keys, CREATE TABLE IF NOT EXISTS
\* schema_migrations, the files of the directory
Run_Load(r) ==
    /\ run[r].pc = "idle"
    /\ run[r].runs < MaxRuns
    /\ LET migrations == loadMigrations(run[r].dir)
           tracked == [mig EXCEPT !.tracking = TRUE]
       IN  IF Len(migrations) = 0
           THEN RunReturns(r, NoError, None, tracked)
           ELSE /\ run' = [run EXCEPT ![r] = [@ EXCEPT !.pc = "getApplied",
                                                       !.migrations = migrations,
                                                       !.did = {}]]
                /\ mig' = tracked
                /\ UNCHANGED <<db, txs, agg, last, deleted, purged, now, pool, wt>>

\* applied, err := r.getAppliedMigrations()
Run_GetApplied(r) ==
    /\ run[r].pc = "getApplied"
    /\ run' = [run EXCEPT ![r] = [@ EXCEPT !.pc = "loop", !.i = 1,
                                           !.applied = Recorded(mig)]]
    /\ UNCHANGED <<db, txs, agg, last, deleted, purged, now, pool, mig, wt>>

\* the loop of Run: past the last migration Run returns nil
Run_Done(r) ==
    /\ run[r].pc = "loop"
    /\ run[r].i > Len(run[r].migrations)
    /\ RunReturns(r, NoError, None, mig)

\* the loop of Run: a migration whose version was read as applied is skipped
Run_Continue(r) ==
    /\ run[r].pc = "loop"
    /\ run[r].i <= Len(run[r].migrations)
    /\ ~Pending(run[r].migrations[run[r].i], run[r].applied)
    /\ run' = [run EXCEPT ![r] = [@ EXCEPT !.i = @ + 1]]
    /\ UNCHANGED <<db, txs, agg, last, deleted, purged, now, pool, mig, wt>>

\* applyMigration: tx, err := r.db.Begin()
Apply_Begin(r, fault) ==
    /\ run[r].pc = "loop"
    /\ run[r].i <= Len(run[r].migrations)
    /\ Pending(run[r].migrations[run[r].i], run[r].applied)
    /\ LET m == run[r].migrations[run[r].i]
       IN  IF fault
           THEN RunReturns(r, ApplyError(m, "failed to begin transaction", DriverError),
                           m, mig)
           ELSE /\ run' = [run EXCEPT ![r] = [@ EXCEPT !.pc = "exec"]]
                /\ UNCHANGED <<db, txs, agg, last, deleted, purged, now, pool, mig, wt>>

\* applyMigration: tx.Exec(m.SQL).  The statement is the first of its
\* transaction: it reads the committed store, and needs the write lock, which it
\* is refused (SQLITE_BUSY, 5) while the transaction of another runner holds it
Apply_Exec(r) ==
    /\ run[r].pc = "exec"
    /\ LET m == run[r].migrations[run[r].i]
           o == ExecSQL(Contents(mig), m.SQL)
           err == IF o.err # NoError THEN o.err
                  ELSE IF mig.lock # 0 THEN SqliteError(5)
                  ELSE NoError
       IN  IF err # NoError
           THEN RunReturns(r, ApplyError(m, "migration SQL failed", err), m,
                           WithContents(Rollback(Contents(mig), o.contents)))
           ELSE /\ run' = [run EXCEPT ![r] = [@ EXCEPT !.pc = "record",
                                                       !.tx = o.contents]]
                /\ mig' = [mig EXCEPT !.lock = r]
                /\ UNCHANGED <<db, txs, agg, last, deleted, purged, now, pool, wt>>

\* applyMigration: INSERT INTO schema_migrations (version) VALUES (?)
Apply_Record(r) ==
    /\ run[r].pc = "record"
    /\ LET m == run[r].migrations[run[r].i]
       IN  IF ~RecordOK(run[r].tx, m.Version)
           THEN RunReturns(r, ApplyError(m, "failed to record migration",
                                         SqliteError(sqliteConstraintPrimaryKey)),
                           m, Ended_Tx(Rollback(Contents(mig), run[r].tx)))
           ELSE /\ run' = [run EXCEPT ![r] =
                             [@ EXCEPT !.pc = "commit",
                                       !.tx = [@ EXCEPT !.schema_migrations =
                                                            Append(@, m.Version)]]]
                /\ UNCHANGED <<db, txs, agg, last, deleted, purged, now, pool, mig, wt>>

\* applyMigration: tx.Commit(), and the loop of Run goes on
Apply_Commit(r, fault) ==
    /\ run[r].pc = "commit"
    /\ LET m == run[r].migrations[run[r].i]
       IN  IF fault
           THEN RunReturns(r, ApplyError(m, "failed to commit transaction", DriverError),
                           m, Ended_Tx(Contents(mig)))
           ELSE /\ run' = [run EXCEPT ![r] = [@ EXCEPT !.pc = "loop", !.i = @ + 1,
                                                       !.tx = None,
                                                       !.did = @ \cup {run[r].i}]]
                /\ mig' = [Ended_Tx(run[r].tx) EXCEPT !.commits[m] = @ + 1]
                /\ UNCHANGED <<db, txs, agg, last, deleted, purged, now, pool, wt>>

----------------------------------------------------------------------------
(* Specifications *)

Init ==
    /\ db = SchemaDB
    /\ txs = [c \in TxIds |-> UnusedTx]
    /\ agg = IdleAgg
    /\ last = [op |-> "none"]
    /\ deleted = {}
    /\ purged = {}
    /\ now = 1
    /\ pool = DefaultPool
    /\ mig = EmptyStore
    /\ run = [r \in Runners |-> NoRunner]
    /\ wt = [c \in TxIds |-> NoCall]

\* the bound on inserts: the table of the view ctx sees has room for one more id,
\* and fewer than n rows were inserted in all
Room(ctx, tbl, n) ==
    /\ ViewOf(GetExecer(ctx)).seq[tbl] < MaxId
    /\ Created(ViewOf(GetExecer(ctx))) < n

\* a further bound on inserts: the rows the view of ctx holds were all inserted into tbl
OnlyTable(ctx, tbl) ==
    Created(ViewOf(GetExecer(ctx))) = ViewOf(GetExecer(ctx)).seq[tbl]

NewProjects == {p \in Projects : p.id = 0}
\* the roles asked for and stored: two of those the CHECK of lab_members allows
MemberRoles == {"PI", "PhD"}

\* new members of either role, alumni or not
RoleMembers ==
    {[id |-> 0, name |-> "A. Researcher", role |-> r, email |-> Null, bio |-> Null,
      photo_url |-> Null, personal_page_content |-> Null, research_interests |-> Null,
      is_alumni |-> a, display_order |-> 1, created_at |-> 0, updated_at |-> 0] :
        r \in MemberRoles, a \in BOOLEAN}

NewLabMembers == {m \in LabMembers : m.id = 0}
NewPublications == {p \in Publications : p.id = 0}

\* projects, lab members, publications and their junction tables, on the base handle
NextLinks ==
    \/ \E p \in NewProjects :
        /\ p.status = "active"
        /\ Room(Background, "projects", MaxLinkRows)
        /\ ProjectCreate(Background, p, FALSE)
    \/ \E m \in NewLabMembers :
        /\ m.display_order = 1
        /\ Room(Background, "lab_members", MaxLinkRows)
        /\ LabMemberCreate(Background, m, FALSE)
    \/ \E p \in NewPublications :
        /\ p.year = 2023
        /\ Room(Background, "publications", MaxLinkRows)
        /\ PublicationCreate(Background, p, FALSE)
    \/ \E id \in Ids : ProjectDelete(Background, id, FALSE)
    \/ \E id \in Ids : LabMemberDelete(Background, id, FALSE)
    \/ \E id \in Ids : PublicationDelete(Background, id, FALSE)
    \/ \E a, b \in Ids : LinkMember(Background, a, b, FALSE)
    \/ \E a, b \in Ids : UnlinkMember(Background, a, b, FALSE)
    \/ \E a, b \in Ids : LinkPublication(Background, a, b, FALSE)
    \/ \E a, b \in Ids : UnlinkPublication(Background, a, b, FALSE)
    \/ \E a, b \in Ids : LinkAuthor(Background, a, b, FALSE)
    \/ \E a, b \in Ids : UnlinkAuthor(Background, a, b, FALSE)

SpecLinks == Init /\ [][NextLinks]_vars

\* the aggregate fetches, among the writes of other callers
NextAgg ==
    \/ \E p \in NewProjects :
        /\ p.status = "active"
        /\ Room(Background, "projects", MaxAggRows)
        /\ ProjectCreate(Background, p, FALSE)
    \/ \E m \in NewLabMembers :
        /\ Room(Background, "lab_members", MaxAggRows)
        /\ LabMemberCreate(Background, m, FALSE)
    \/ \E p \in NewPublications :
        /\ p.year = 2023
        /\ Room(Background, "publications", MaxAggRows)
        /\ PublicationCreate(Background, p, FALSE)
    \/ \E id \in Ids : ProjectDelete(Background, id, FALSE)
    \/ \E id \in Ids : PublicationDelete(Background, id, FALSE)
    \/ \E a, b \in Ids : LinkMember(Background, a, b, FALSE)
    \/ \E a, b \in Ids : UnlinkMember(Background, a, b, FALSE)
    \/ \E a, b \in Ids : LinkPublication(Background, a, b, FALSE)
    \/ \E a, b \in Ids : LinkAuthor(Background, a, b, FALSE)
    \/ \E id \in Ids, f \in Faults : GetWithRelations_GetByID(Background, id, f)
    \/ \E f \in Faults : GetWithRelations_GetMembers(f)
    \/ \E f \in Faults : GetWithRelations_GetPublications(f)
    \/ \E id \in Ids, f \in Faults : GetWithAuthors_GetByID(Background, id, f)
    \/ \E f \in Faults : GetWithAuthors_GetAuthors(f)

SpecAgg == Init /\ [][NextAgg]_vars

\* the six entity repositories, on the base handle
NextCrud ==
    \/ \E u \in UsersWithPassword :
        /\ Room(Background, "users", MaxCrudRows)
        /\ UserCreate(Background, u, FALSE)
    \/ \E u \in Users :
        /\ u.role = "root"
        /\ UserUpdate(Background, u, FALSE)
    \/ \E id \in Ids : UpdatePassword(Background, id, "hash-2", FALSE)
    \/ \E id \in Ids : UserDelete(Background, id, FALSE)
    \/ \E m \in NewLabMembers :
        /\ m.display_order = 1
        /\ Room(Background, "lab_members", MaxCrudRows)
        /\ LabMemberCreate(Background, m, FALSE)
    \/ \E m \in LabMembers :
        /\ m.id \in Ids /\ m.display_order = 2
        /\ LabMemberUpdate(Background, m, FALSE)
    \/ \E id \in Ids : MarkAsAlumni(Background, id, TRUE, FALSE)
    \/ \E id \in Ids : UpdatePhotoURL(Background, id, "/photos/p.png", FALSE)
    \/ \E id \in Ids : LabMemberDelete(Background, id, FALSE)
    \/ \E p \in NewPublications :
        /\ p.year = 2023
        /\ Room(Background, "publications", MaxCrudRows)
        /\ PublicationCreate(Background, p, FALSE)
    \/ \E p \in Publications :
        /\ p.id \in Ids /\ p.year = 2020
        /\ PublicationUpdate(Background, p, FALSE)
    \/ \E id \in Ids : PublicationDelete(Background, id, FALSE)
    \/ \E p \in NewProjects :
        /\ p.status = "active"
        /\ Room(Background, "projects", MaxCrudRows)
        /\ ProjectCreate(Background, p, FALSE)
    \/ \E p \in Projects :
        /\ p.id \in Ids /\ p.status = "completed"
        /\ ProjectUpdate(Background, p, FALSE)
    \/ \E id \in Ids : ProjectDelete(Background, id, FALSE)
    \/ \E n \in NewsItems :
        /\ n.id = 0 /\ ~n.is_published /\ ~n.published_at.Valid
        /\ Room(Background, "news", MaxCrudRows)
        /\ NewsCreate(Background, n, FALSE)
    \/ \E n \in NewsItems :
        /\ n.id \in Ids /\ n.is_published /\ n.published_at = NotNull(1)
        /\ NewsUpdate(Background, n, FALSE)
    \/ \E id \in Ids : Publish(Background, id, FALSE)
    \/ \E id \in Ids : Unpublish(Background, id, FALSE)
    \/ \E id \in Ids : NewsDelete(Background, id, FALSE)
    \/ \E h \in HomepageSections :
        /\ h.id = 0
        /\ Room(Background, "homepage_sections", MaxCrudRows)
        /\ HomepageCreate(Background, h, FALSE)
    \/ \E h \in HomepageSections :
        /\ h.id \in Ids /\ h.section_key = "overview"
        /\ HomepageUpdate(Background, [h EXCEPT !.title = "Title 2"], FALSE)
    \/ \E id \in Ids : UpdateContent(Background, id, "Title 3", "c3", FALSE)
    \/ \E k \in SectionKeys : UpdateContentByKey(Background, k, "Title 4", "c4", FALSE)
    \/ \E id \in Ids : HomepageDelete(Background, id, FALSE)

SpecCrud == Init /\ [][NextCrud]_vars

\* WithTransaction, nested and failing, around the project repository
NextTx ==
    \/ \E ctx \in Contexts, f \in Faults : WithTransaction_Begin(ctx, f)
    \/ \E c \in TxIds, e \in {NoError, AnError}, f \in Faults :
        WithTransaction_End(c, e, f)
    \/ \E ctx \in Contexts, p \in NewProjects :
        /\ p.status = "active"
        /\ Room(ctx, "projects", MaxTxRows)
        /\ ProjectCreate(ctx, p, FALSE)
    \/ \E ctx \in Contexts, p \in Projects :
        /\ p.id \in Ids /\ p.status = "completed"
        /\ ProjectUpdate(ctx, p, FALSE)
    \/ \E ctx \in Contexts, id \in Ids : ProjectDelete(ctx, id, FALSE)

SpecTx == Init /\ [][NextTx]_vars

\* Create and Delete of the six entities, on the base handle and in one
\* transaction that commits or rolls back, and GetByID on the base handle
NextDelete ==
    \/ /\ \A c \in TxIds : txs[c].state = "unused"
       /\ WithTransaction_Begin(Background, FALSE)
    \/ \E c \in TxIds, e \in {NoError, AnError} : WithTransaction_End(c, e, FALSE)
    \/ \E ctx \in Contexts, u \in UsersWithPassword :
        /\ u.email = "a@lab.org" /\ u.role = "normal"
        /\ Room(ctx, "users", MaxDeleteRows) /\ OnlyTable(ctx, "users")
        /\ UserCreate(ctx, u, FALSE)
    \/ \E ctx \in Contexts, id \in Ids : UserDelete(ctx, id, FALSE)
    \/ \E id \in Ids : UserGetByID(Background, id, FALSE)
    \/ \E ctx \in Contexts, m \in NewLabMembers :
        /\ m.display_order = 1
        /\ Room(ctx, "lab_members", MaxDeleteRows) /\ OnlyTable(ctx, "lab_members")
        /\ LabMemberCreate(ctx, m, FALSE)
    \/ \E ctx \in Contexts, id \in Ids : LabMemberDelete(ctx, id, FALSE)
    \/ \E id \in Ids : LabMemberGetByID(Background, id, FALSE)
    \/ \E ctx \in Contexts, p \in NewPublications :
        /\ p.year = 2023
        /\ Room(ctx, "publications", MaxDeleteRows) /\ OnlyTable(ctx, "publications")
        /\ PublicationCreate(ctx, p, FALSE)
    \/ \E ctx \in Contexts, id \in Ids : PublicationDelete(ctx, id, FALSE)
    \/ \E id \in Ids : PublicationGetByID(Background, id, FALSE)
    \/ \E ctx \in Contexts, p \in NewProjects :
        /\ p.status = "active"
        /\ Room(ctx, "projects", MaxDeleteRows) /\ OnlyTable(ctx, "projects")
        /\ ProjectCreate(ctx, p, FALSE)
    \/ \E ctx \in Contexts, id \in Ids : ProjectDelete(ctx, id, FALSE)
    \/ \E id \in Ids : ProjectGetByID(Background, id, FALSE)
    \/ \E ctx \in Contexts, n \in NewsItems :
        /\ n.id = 0 /\ ~n.is_published /\ ~n.published_at.Valid
        /\ Room(ctx, "news", MaxDeleteRows) /\ OnlyTable(ctx, "news")
        /\ NewsCreate(ctx, n, FALSE)
    \/ \E ctx \in Contexts, id \in Ids : NewsDelete(ctx, id, FALSE)
    \/ \E id \in Ids : NewsGetByID(Background, id, FALSE)
    \/ \E ctx \in Contexts, h \in HomepageSections :
        /\ h.id = 0 /\ h.section_key = "overview"
        /\ Room(ctx, "homepage_sections", MaxDeleteRows) /\ OnlyTable(ctx, "homepage_sections")
        /\ HomepageCreate(ctx, h, FALSE)
    \/ \E ctx \in Contexts, id \in Ids : HomepageDelete(ctx, id, FALSE)
    \/ \E id \in Ids : HomepageGetByID(Background, id, FALSE)

SpecDelete == Init /\ [][NextDelete]_vars

\* the records callers pass to Create: whatever id and timestamps they carry
Filled(S) ==
    {Assign(e, [id |-> i, created_at |-> t, updated_at |-> t]) :
        e \in {x \in S : x.id = 0}, i \in {0, MaxId}, t \in {0, 7}}

\* Create, GetByID and Delete of the six entities on the base handle, one table
\* in a run
NextCreate ==
    \/ \E u \in Filled(UsersWithPassword) :
        /\ u.role = "normal"
        /\ Room(Background, "users", MaxCreateRows) /\ OnlyTable(Background, "users")
        /\ UserCreate(Background, u, FALSE)
    \/ \E id \in Ids : UserGetByID(Background, id, FALSE)
    \/ \E id \in Ids : UserDelete(Background, id, FALSE)
    \/ \E m \in Filled(LabMembers) :
        /\ Room(Background, "lab_members", MaxCreateRows)
        /\ OnlyTable(Background, "lab_members")
        /\ LabMemberCreate(Background, m, FALSE)
    \/ \E id \in Ids : LabMemberGetByID(Background, id, FALSE)
    \/ \E id \in Ids : LabMemberDelete(Background, id, FALSE)
    \/ \E p \in Filled(Publications) :
        /\ Room(Background, "publications", MaxCreateRows)
        /\ OnlyTable(Background, "publications")
        /\ PublicationCreate(Background, p, FALSE)
    \/ \E id \in Ids : PublicationGetByID(Background, id, FALSE)
    \/ \E id \in Ids : PublicationDelete(Background, id, FALSE)
    \/ \E p \in Filled(Projects) :
        /\ Room(Background, "projects", MaxCreateRows)
        /\ OnlyTable(Background, "projects")
        /\ ProjectCreate(Background, p, FALSE)
    \/ \E id \in Ids : ProjectGetByID(Background, id, FALSE)
    \/ \E id \in Ids : ProjectDelete(Background, id, FALSE)
    \/ \E n \in Filled(NewsItems) :
        /\ Room(Background, "news", MaxCreateRows) /\ OnlyTable(Background, "news")
        /\ NewsCreate(Background, n, FALSE)
    \/ \E id \in Ids : NewsGetByID(Background, id, FALSE)
    \/ \E id \in Ids : NewsDelete(Background, id, FALSE)
    \/ \E h \in Filled(HomepageSections) :
        /\ Room(Background, "homepage_sections", MaxCreateRows)
        /\ OnlyTable(Background, "homepage_sections")
        /\ HomepageCreate(Background, h, FALSE)
    \/ \E id \in Ids : HomepageGetByID(Background, id, FALSE)
    \/ \E id \in Ids : HomepageDelete(Background, id, FALSE)

SpecCreate == Init /\ [][NextCreate]_vars

\* the user repository on the base handle
NextUsers ==
    \/ \E u \in UsersWithPassword :
        /\ Room(Background, "users", MaxUserRows)
        /\ UserCreate(Background, u, FALSE)
    \/ \E u \in Users : UserUpdate(Background, u, FALSE)
    \/ \E id \in Ids : UpdatePassword(Background, id, "hash-2", FALSE)
    \/ \E id \in Ids : UserDelete(Background, id, FALSE)
    \/ \E id \in Ids : UserGetByID(Background, id, FALSE)
    \/ \E e \in Emails : UserGetByEmail(Background, e, FALSE)
    \/ UserGetAll(Background, FALSE)

SpecUsers == Init /\ [][NextUsers]_vars

\* the news repository on the base handle and News.IsPublishedNow, as time passes
NextNews ==
    \/ Tick
    \/ \E n \in NewsItems :
        /\ n.id = 0
        /\ Room(Background, "news", MaxNewsRows)
        /\ NewsCreate(Background, n, FALSE)
    \/ \E id \in Ids : Publish(Background, id, FALSE)
    \/ \E id \in Ids : Unpublish(Background, id, FALSE)
    \/ \E id \in Ids : NewsDelete(Background, id, FALSE)
    \/ \E limit \in -1..MaxNewsRows : GetPublished(Background, limit, FALSE)
    \/ \E n \in NewsItems, t2 \in 1..MaxTime :
        /\ n.id = 1
        /\ IsPublishedNow(n, t2)

SpecNews == Init /\ [][NextNews]_vars

\* concurrent calls of WithTransaction, each at its own step
NextFinish ==
    \/ \E c \in TxIds, f \in Faults : WithTransaction_BeginTx(c, f)
    \/ \E c \in TxIds, e \in {NoError, AnError, ErrNotFound} : WithTransaction_Fn(c, e)
    \/ \E c \in TxIds, f \in Faults : WithTransaction_Rollback(c, f)
    \/ \E c \in TxIds, f \in Faults : WithTransaction_Commit(c, f)

SpecFinish == Init /\ [][NextFinish]_vars

\* MarkAsAlumni against the listings by role and of alumni, as time passes
NextRoles ==
    \/ Tick
    \/ \E m \in RoleMembers :
        /\ db.seq["lab_members"] < MaxId
        /\ LabMemberCreate(Background, m, FALSE)
    \/ \E id \in Ids, a \in BOOLEAN : MarkAsAlumni(Background, id, a, FALSE)
    \/ \E id \in Ids : LabMemberDelete(Background, id, FALSE)
    \/ \E role \in MemberRoles : GetByRole(Background, role, FALSE)
    \/ GetAlumni(Background, FALSE)

SpecRoles == Init /\ [][NextRoles]_vars

\* Publish and Unpublish against the two listings of news, as time passes
NextDrafts ==
    \/ Tick
    \/ \E n \in NewsItems :
        /\ n.id = 0
        /\ Room(Background, "news", MaxNewsRows)
        /\ NewsCreate(Background, n, FALSE)
    \/ \E id \in Ids : Publish(Background, id, FALSE)
    \/ \E id \in Ids : Unpublish(Background, id, FALSE)
    \/ \E id \in Ids : NewsDelete(Background, id, FALSE)
    \/ \E limit \in -1..MaxNewsRows : GetPublished(Background, limit, FALSE)
    \/ GetDrafts(Background, FALSE)

SpecDrafts == Init /\ [][NextDrafts]_vars

\* the lab member repository on the base handle, with up to MaxMembers members
NextMembers ==
    \/ Tick
    \/ \E m \in NewLabMembers :
        /\ db.seq["lab_members"] < MaxMembers
        /\ LabMemberCreate(Background, m, FALSE)
    \/ \E id \in 1..MaxMembers, a \in BOOLEAN : MarkAsAlumni(Background, id, a, FALSE)
    \/ \E id \in 1..MaxMembers : LabMemberDelete(Background, id, FALSE)
    \/ LabMemberGetAll(Background, FALSE)

SpecMembers == Init /\ [][NextMembers]_vars

\* the errors a caller can hand to WrapError: those of database/sql and of the
\* driver (SQLITE_BUSY is 5, SQLITE_CONSTRAINT_CHECK 275), the sentinels of the
\* package, and any of them wrapped by fmt.Errorf up to MaxWrap times
DriverErrors ==
    {sqlErrNoRows, DriverError, ErrNotFound, ErrDuplicate, ErrDatabase}
        \cup {SqliteError(c) : c \in {sqliteConstraintUnique, sqliteConstraintForeignKey,
                                      sqliteConstraintNotNull, sqliteConstraintPrimaryKey,
                                      5, 275}}

RECURSIVE WrappedErrors(_)
WrappedErrors(n) ==
    IF n = 0 THEN DriverErrors
    ELSE WrappedErrors(n - 1) \cup {Errorf("query", e) : e \in WrappedErrors(n - 1)}

NextWrap ==
    \E err \in {NoError} \cup WrappedErrors(MaxWrap),
       operation \in {"create user", "get user by id", "link member to project"} :
        WrapErrorCall(err, operation)

SpecWrap == Init /\ [][NextWrap]_vars

\* ConfigurePool, called again and again on one manager
NextPool ==
    \E maxOpenConns, maxIdleConns \in -1..MaxConns :
        ConfigurePool(maxOpenConns, maxIdleConns)

SpecPool == Init /\ [][NextPool]_vars

\* main: cfg := config.Load(); cfg.Validate(); and the callers that build a Config
\* themselves, as the tests of Validate do
NextConfig ==
    \/ \E env \in Environments, f \in Faults : ValidateCall(Load(env), env, f)
    \/ \E cfg \in Configs, f \in Faults : ValidateCall(cfg, None, f)

SpecConfig == Init /\ [][NextConfig]_vars

\* the errors a handler can hold: the sentinels, the AppErrors of the
\* constructors, and any of them given a cause or wrapped with %w up to MaxWrap times
RECURSIVE AppErrors(_)
AppErrors(n) ==
    IF n = 0
    THEN Sentinels \cup {OtherError, NotFound, Validation, Unauthorized, Forbidden, Duplicate}
    ELSE AppErrors(n - 1)
            \cup {Errorf("context", e) : e \in AppErrors(n - 1)}
            \cup {ValidationFromErr(e) : e \in AppErrors(n - 1)}
            \cup {Internal(e) : e \in AppErrors(n - 1)}
            \cup {Database(e) : e \in AppErrors(n - 1)}
            \cup {Wrap(NotFound, e) : e \in AppErrors(n - 1)}
            \cup {Wrap(Duplicate, e) : e \in AppErrors(n - 1)}

NextStatus ==
    \E err \in {NoError} \cup AppErrors(MaxWrap) : GetStatusCodeCall(err)

SpecStatus == Init /\ [][NextStatus]_vars

\* the steps of Run on runner r
RunSteps(r) ==
    \/ Run_Load(r)
    \/ Run_GetApplied(r)
    \/ Run_Done(r)
    \/ Run_Continue(r)
    \/ \E fault \in Faults : Apply_Begin(r, fault)
    \/ Apply_Exec(r)
    \/ Apply_Record(r)
    \/ \E fault \in Faults : Apply_Commit(r, fault)

\* one runner, its Run called again and again
NextMigrate ==
    \/ \E dir \in MigrationDirs : NewRunner(1, dir)
    \/ RunSteps(1)

SpecMigrate == Init /\ [][NextMigrate]_vars

\* the runners of MaxRunners processes on one store, their steps interleaved
NextRace ==
    \/ \E r \in Runners, dir \in MigrationDirs : NewRunner(r, dir)
    \/ \E r \in Runners : RunSteps(r)

SpecRace == Init /\ [][NextRace]_vars

----------------------------------------------------------------------------
(* Properties of the link operations (SpecLinks: calls on the base handle)   *)

LinkOps == {"Project.LinkMember", "Project.LinkPublication", "Publication.LinkAuthor"}

UnlinkOps ==
    {"Project.UnlinkMember", "Project.UnlinkPublication", "Publication.UnlinkAuthor"}

DeleteOps ==
    {"User.Delete", "LabMember.Delete", "Publication.Delete", "Project.Delete",
     "News.Delete", "Homepage.Delete"}

GetByIDOps ==
    {"User.GetByID", "LabMember.GetByID", "Publication.GetByID", "Project.GetByID",
     "News.GetByID", "Homepage.GetByID"}

\* C7: LinkMember, LinkPublication and LinkAuthor are idempotent: a Link of a pair
\* that is already linked returns nil and changes nothing in the store, and after
\* any Link that returns nil the junction table holds exactly one row for the pair.
C7_LinkIdempotent ==
    [][last'.op \in LinkOps /\ last'.ran =>
        /\ last'.id \in db[last'.tbl] => (last'.err = NoError /\ db' = db)
        /\ last'.err = NoError =>
                Cardinality({r \in db'[last'.tbl] : r = last'.id}) = 1]_vars

\* a Link of an already linked pair returned: no row inserted, no error
C7_Witness ==
    /\ last.op \in LinkOps
    /\ last.ran
    /\ last.rows = 0
    /\ last.err = NoError
    /\ last.id \in db[last.tbl]

\* C8: UnlinkMember, UnlinkPublication and UnlinkAuthor delete exactly the row of
\* the pair when it exists and return nil, leaving every other row of the store as
\* it was; when the pair is not linked they return ErrNotFound and change nothing.
C8_UnlinkExactlyOne ==
    [][last'.op \in UnlinkOps /\ last'.ran =>
        /\ db' = [db EXCEPT ![last'.tbl] = @ \ {last'.id}]
        /\ last'.err = IF last'.id \in db[last'.tbl] THEN NoError ELSE ErrNotFound]_vars

\* an Unlink removed its pair and another pair of the same table is still linked
C8_Witness ==
    /\ last.op \in UnlinkOps
    /\ last.err = NoError
    /\ last.id \notin db[last.tbl]
    /\ db[last.tbl] # {}

\* every junction row references parents that exist
ReferentialIntegrity(v) ==
    \A jt \in JunctionTables : \A p \in v[jt] :
        /\ p[1] \in DOMAIN v[Parents(jt)[1]]
        /\ p[2] \in DOMAIN v[Parents(jt)[2]]

\* the junction rows of v that reference row id of table tbl
References(v, tbl, id) ==
    {r \in JunctionRows(v) :
        \E k \in {1, 2} : Parents(r[1])[k] = tbl /\ r[2][k] = id}

\* C9: after any sequence of Create, Delete, Link and Unlink every row of
\* project_members, publication_authors and project_publications references
\* parents that exist, and a Delete of a project, publication or lab member that
\* returns nil leaves no junction row that references it.
C9_ReferentialIntegrity ==
    /\ []ReferentialIntegrity(db)
    /\ [][last'.op \in DeleteOps /\ last'.err = NoError =>
            References(db', last'.tbl, last'.id) = {}]_vars

\* a Delete of a linked parent returned nil: the store removed junction rows with
\* it, and other links are still there
C9_Witness ==
    /\ last.op \in DeleteOps
    /\ last.err = NoError
    /\ last.gone # {}
    /\ JunctionRows(db) # {}

\* C19: a failure of a repository method that is neither ErrNotFound nor
\* ErrDuplicate is ErrDatabase (errors.Is); a LinkMember, LinkPublication or
\* LinkAuthor that names a parent that is not stored inserts no junction row and
\* returns an error that is ErrDatabase and neither ErrNotFound nor ErrDuplicate.
C19_FailuresAreDatabase ==
    [][/\ last'.op \in LinkOps \cup UnlinkOps \cup DeleteOps /\ last'.err # NoError
            /\ last'.err \notin {ErrNotFound, ErrDuplicate} =>
                ErrorsIs(last'.err, ErrDatabase)
       /\ last'.op \in LinkOps /\ last'.ran
            /\ (\/ last'.id[1] \notin DOMAIN db[Parents(last'.tbl)[1]]
                \/ last'.id[2] \notin DOMAIN db[Parents(last'.tbl)[2]]) =>
                /\ db' = db
                /\ ErrorsIs(last'.err, ErrDatabase)
                /\ ~ErrorsIs(last'.err, ErrNotFound)
                /\ ~ErrorsIs(last'.err, ErrDuplicate)]_vars

----------------------------------------------------------------------------
(* Properties of the aggregate fetches (SpecAgg)                              *)

AggOps == {"Project.GetWithRelations", "Publication.GetWithAuthors"}

\* the queries a complete fetch issues: the primary lookup and one per collection
Queries(op) == IF op = "Project.GetWithRelations" THEN 3 ELSE 2

\* C10: GetWithRelations and GetWithAuthors never return a partial aggregate: when
\* the primary entity is missing they return ErrNotFound and a nil result after
\* that one query; when a related-collection query fails they return an error that
\* wraps the query's error and a nil result; they return an aggregate only with a
\* nil error, after every one of their queries succeeded.
C10_NoPartialAggregate ==
    last.op \in AggOps =>
        /\ last.failed = 1 /\ last.cause = sqlErrNoRows =>
                (last.err = ErrNotFound /\ last.out = None /\ last.stmts = 1)
        /\ last.failed # 0 =>
                (last.out = None /\ last.err # NoError /\ last.stmts = last.failed)
        /\ last.failed > 1 => ErrorsIs(last.err, last.cause)
        /\ last.out # None <=> last.err = NoError
        /\ last.err = NoError => (last.failed = 0 /\ last.stmts = Queries(last.op))
        /\ last.err = NoError /\ last.op = "Project.GetWithRelations" =>
                DOMAIN last.out = {"primary", "Members", "Publications"}
        /\ last.err = NoError /\ last.op = "Publication.GetWithAuthors" =>
                DOMAIN last.out = {"primary", "Authors"}

\* GetWithRelations of a project with members lost its third query: the members
\* were fetched, yet nothing of the aggregate is returned
C10_Witness ==
    /\ last.op = "Project.GetWithRelations"
    /\ last.failed = 3
    /\ last.out = None
    /\ last.err # NoError
    /\ \E m \in Ids : <<last.id, m>> \in db.project_members

\* rows lists every row of table t whose id is in ids once, and nothing else
ListsExactly(rows, t, ids) ==
    /\ Len(rows) = Cardinality(ids)
    /\ \A i \in ids : \E k \in DOMAIN rows : rows[k] = t[i]
    /\ \A k \in DOMAIN rows : rows[k].id \in ids

\* the ids table jt links to parentID
LinkedTo(v, jt, parentID) == {p[2] : p \in {q \in v[jt] : q[1] = parentID}}

\* the queries of GetWithRelations, as they return in a step
ReadsProject == agg.pc = "idle" /\ agg'.pc = "GetMembers"
ReadsMembers == agg.pc = "GetMembers" /\ agg'.pc = "GetPublications"
ReadsPublications ==
    /\ agg.pc = "GetPublications"
    /\ last'.op = "Project.GetWithRelations"
    /\ last'.err = NoError

\* C11: GetWithRelations of a stored project returns the project's row, and each of
\* its two lists holds, once each and with nothing else, the rows of the lab
\* members linked through project_members, and of the publications linked through
\* project_publications, in the store its query reads; a project with one linked
\* member and no linked publication yields one member and no publication.
C11_ExactRelations ==
    [][/\ ReadsProject => agg'.primary = db.projects[agg'.id]
       /\ ReadsMembers =>
            ListsExactly(agg'.members, db.lab_members,
                         LinkedTo(db, "project_members", agg.id))
       /\ ReadsPublications =>
            /\ last'.out.primary = agg.primary
            /\ last'.out.Members = agg.members
            /\ ListsExactly(last'.out.Publications, db.publications,
                            LinkedTo(db, "project_publications", agg.id))]_vars

\* GetWithRelations returned one member and no publication for a project linked to
\* one of the two stored members
C11_Witness ==
    /\ last.op = "Project.GetWithRelations"
    /\ last.err = NoError
    /\ Len(last.out.Members) = 1
    /\ last.out.Publications = <<>>
    /\ last.out.primary.title = "AI Lab"
    /\ last.out.Members[1].name = "A. Researcher"
    /\ LinkedTo(db, "project_members", last.id) = {last.out.Members[1].id}
    /\ Cardinality(DOMAIN db.lab_members) = 2

\* C26: GetWithRelations called outside a transaction, while other callers run
\* Delete, LinkMember, UnlinkMember, LinkPublication or UnlinkPublication, returns
\* the project and its relations as they were in one store state; in particular
\* the project it returns was not already deleted when its lists were read.  The
\* formula is this last case, at the read of the publication list.
C26_OneStoreState ==
    [][(ReadsPublications /\ agg.ctx = Background) => agg.id \in DOMAIN db.projects]_vars

----------------------------------------------------------------------------
(* Properties of the entity repositories (SpecCrud: calls on the base handle) *)

\* no two rows of a table share the key of its unique index
UniqueKeys(v) ==
    \A tbl \in UniqueTables : \A i, j \in DOMAIN v[tbl] :
        i # j => UniqueKey(tbl, v[tbl][i]) # UniqueKey(tbl, v[tbl][j])

KeyTaken(v, tbl, key) == \E i \in DOMAIN v[tbl] : UniqueKey(tbl, v[tbl][i]) = key

\* C3: a Create whose unique key (users.email, homepage_sections.section_key) is
\* already stored returns ErrDuplicate and no entity and leaves the store as it
\* was; and in every reachable store no two rows of users, homepage_sections or
\* lab_settings share their unique key.
C3_DuplicateCreate ==
    /\ []UniqueKeys(db)
    /\ [][last'.op \in {"User.Create", "Homepage.Create"} /\ last'.ran
            /\ KeyTaken(db, last'.tbl, last'.key) =>
                (last'.err = ErrDuplicate /\ last'.out = None /\ db' = db)]_vars

\* a Create of a user whose email is stored was refused, the stored row is there
C3_Witness ==
    /\ last.op = "User.Create"
    /\ last.err = ErrDuplicate
    /\ \E i \in DOMAIN db.users : db.users[i].email = last.key
    /\ db.seq["users"] = Cardinality(DOMAIN db.users)

UpdateOps ==
    {"User.Update", "LabMember.Update", "Publication.Update", "Project.Update",
     "News.Update", "Homepage.Update"}

\* C4: for each of the six entity repositories, an Update whose id is not stored
\* returns ErrNotFound and no entity, and leaves the store as it was.
C4_UpdateMissing ==
    [][last'.op \in UpdateOps /\ last'.ran /\ last'.id \notin DOMAIN db[last'.tbl] =>
            (last'.err = ErrNotFound /\ last'.out = None /\ db' = db)]_vars

\* an Update of an id that is not stored was refused while the table has a row
C4_Witness ==
    /\ last.op \in UpdateOps
    /\ last.err = ErrNotFound
    /\ last.id \notin DOMAIN db[last.tbl]
    /\ DOMAIN db[last.tbl] # {}

\* the by-id and by-key mutations that end with CheckRowsAffected(result, 1)
ExecOps ==
    DeleteOps \cup
        {"LabMember.MarkAsAlumni", "LabMember.UpdatePhotoURL", "News.Publish",
         "News.Unpublish", "Homepage.UpdateContent", "Homepage.UpdateContentByKey",
         "User.UpdatePassword"}

\* the rows of v the WHERE clause of call c matches
Matched(v, c) ==
    IF c.op = "Homepage.UpdateContentByKey"
    THEN {i \in DOMAIN v[c.tbl] : v[c.tbl][i].section_key = c.key}
    ELSE {c.id} \cap DOMAIN v[c.tbl]

\* C5: a Delete, MarkAsAlumni, UpdatePhotoURL, Publish, Unpublish, UpdateContent,
\* UpdateContentByKey or UpdatePassword whose id or key matches no row returns
\* ErrNotFound and leaves the store as it was; it returns nil only when it
\* matched, and the store reported, exactly one row.
C5_ZeroRowsNotFound ==
    [][last'.op \in ExecOps /\ last'.ran =>
        /\ Matched(db, last') = {} => (last'.err = ErrNotFound /\ db' = db)
        /\ last'.err = NoError =>
                (last'.rows = 1 /\ Cardinality(Matched(db, last')) = 1)]_vars

\* UpdateContentByKey of a key no section has was refused while another section
\* is stored
C5_Witness ==
    /\ last.op = "Homepage.UpdateContentByKey"
    /\ last.err = ErrNotFound
    /\ DOMAIN db.homepage_sections # {}
    /\ Matched(db, last) = {}

\* C12: Update is a full-record replace by id: when an Update of any of the six
\* repositories returns nil, the row GetByID reads for that id has, in every
\* attribute the caller sets (and in id and updated_at), the value of the record
\* Update returned.
C12_UpdateReplacesRecord ==
    [][last'.op \in UpdateOps /\ last'.err = NoError =>
        \A c \in DOMAIN last'.out \ {"created_at"} :
            Scan(last'.tbl, db'[last'.tbl][last'.id])[c] = last'.out[c]]_vars

----------------------------------------------------------------------------
(* Properties of Create (SpecCreate)                                          *)

CreateOps ==
    {"User.Create", "LabMember.Create", "Publication.Create", "Project.Create",
     "News.Create", "Homepage.Create"}

\* a GetByID of the id a Create has just returned, returning in this step
ReadsCreated ==
    /\ last.op \in CreateOps
    /\ last.err = NoError
    /\ last'.op \in GetByIDOps
    /\ last'.tbl = last.tbl
    /\ last'.id = last.out.id

\* C13: for each of the six entities, GetByID of the id a Create returned finds a
\* record that has the caller's value in every attribute but id, created_at and
\* updated_at; its id is the one the store assigned, not zero and not the one the
\* caller's record carried unless they coincide, and its created_at / updated_at
\* (where the entity has them) are the store's clock at the Create, not zero and
\* not the caller's.
C13_CreateThenGet ==
    [][ReadsCreated =>
        /\ last'.err = NoError
        /\ \A c \in DOMAIN last'.out \ {"id", "created_at", "updated_at"} :
                last'.out[c] = last.arg[c]
        /\ last'.out.id = db.seq[last.tbl]
        /\ last'.out.id # 0
        /\ \A c \in DOMAIN last'.out \cap {"created_at", "updated_at"} :
                last'.out[c] = now /\ last'.out[c] # 0
        /\ \A c \in DOMAIN last'.out : last'.out[c] = last.out[c]]_vars

\* a GetByID read back the row a Create inserted after an earlier row of the
\* table was deleted: its id and timestamps are the store's
C13_Witness ==
    /\ last.op \in GetByIDOps
    /\ last.err = NoError
    /\ last.id = MaxId
    /\ last.out.id = MaxId
    /\ last.out.updated_at = now
    /\ DOMAIN db[last.tbl] = {MaxId}

----------------------------------------------------------------------------
(* Properties of the user repository (SpecUsers)                              *)

\* the records of a call's result: those of a list, or the one record
Records(call) ==
    IF call.op = "User.GetAll" THEN {call.out[k] : k \in DOMAIN call.out}
    ELSE {call.out}

\* C14: the stored password_hash is read only by GetByEmail and written only by
\* Create and UpdatePassword: no record GetByID, GetAll or Update returns has a
\* password_hash; a call other than UpdatePassword changes the password_hash of no
\* stored user, Update with another email or role included, and UpdatePassword
\* changes that of its id only; GetByEmail returns the stored password_hash.
C14_PasswordHashPaths ==
    /\ [](last.op \in {"User.GetByID", "User.GetAll", "User.Update"}
            /\ last.err = NoError =>
                \A r \in Records(last) : "password_hash" \notin DOMAIN r)
    /\ [](last.op = "User.GetByEmail" /\ last.err = NoError =>
                last.out = db.users[last.out.id])
    /\ [][\A i \in DOMAIN db.users \cap DOMAIN db'.users :
            db'.users[i].password_hash # db.users[i].password_hash =>
                (last'.op = "User.UpdatePassword" /\ last'.id = i)]_vars
    /\ [][\A i \in DOMAIN db'.users \ DOMAIN db.users :
            last'.op = "User.Create" /\ db'.users[i].password_hash = last'.arg.password_hash]_vars

\* an Update changed the email of a user whose password was changed before: the
\* stored password_hash is the changed one still
C14_Witness ==
    /\ last.op = "User.Update"
    /\ last.err = NoError
    /\ db.users[last.id].email = "b@lab.org"
    /\ db.users[last.id].password_hash = "hash-2"
    /\ \E i \in DOMAIN db.users : db.users[i].password_hash = "hash-1"

----------------------------------------------------------------------------
(* Properties of news (SpecNews)                                              *)

\* C15: whatever the store holds and whatever the limit, no item GetPublished
\* returns has is_published false, and none has a published_at later than the
\* clock at the call.
C15_GetPublishedVisibleOnly ==
    [][last'.op = "News.GetPublished" /\ last'.err = NoError =>
        \A k \in DOMAIN last'.out :
            /\ last'.out[k].is_published
            /\ ~(last'.out[k].published_at.Valid /\ last'.out[k].published_at.V > now)
            /\ last'.out[k] = db.news[last'.out[k].id]]_vars

\* GetPublished returned one item and left out a stored item that is published
\* with a published_at still to come
C15_Witness ==
    /\ last.op = "News.GetPublished"
    /\ last.err = NoError
    /\ Len(last.out) = 1
    /\ \E i \in DOMAIN db.news :
        /\ db.news[i].is_published
        /\ db.news[i].published_at.Valid
        /\ db.news[i].published_at.V > now
        /\ i # last.out[1].id

\* C16: News.IsPublishedNow returns true exactly for the items that are published
\* now: is_published is true and published_at is unset or not later than the
\* current time (stated for the calls during which the clock stands still).
C16_PublishedNowDefinition ==
    last.op = "News.IsPublishedNow" /\ last.t1 = last.t2 =>
        (last.out <=> Visible(last.arg, last.t1))

\* C17: News.IsPublishedNow returns false for a draft, false for an item whose
\* published_at is later than the clock, and false for an item that is published
\* without a published_at; it returns true for a published item whose
\* published_at is the time of the call or earlier.
C17_IsPublishedNowCases ==
    last.op = "News.IsPublishedNow" =>
        /\ ~last.arg.is_published => ~last.out
        /\ last.arg.published_at.Valid /\ last.arg.published_at.V > last.t2 => ~last.out
        /\ last.arg.is_published /\ ~last.arg.published_at.Valid => ~last.out
        /\ last.arg.is_published /\ last.arg.published_at.Valid
                /\ last.arg.published_at.V <= last.t1 => last.out

----------------------------------------------------------------------------
(* Properties of Publish and Unpublish (SpecDrafts)                           *)

\* this step is a Publish(id), an Unpublish(id), that returns nil
Publishes(id) == Publish(Background, id, FALSE) /\ last'.err = NoError
Unpublishes(id) == Unpublish(Background, id, FALSE) /\ last'.err = NoError

\* the ids of the items the listing op returns in this step
Returned(op) ==
    IF last'.op = op /\ last'.err = NoError
    THEN {last'.out[k].id : k \in DOMAIN last'.out} ELSE {}

\* item id is as a Publish at or before the clock leaves it
Stamped(id) ==
    /\ id \in DOMAIN db.news
    /\ db.news[id].is_published
    /\ db.news[id].published_at.Valid
    /\ db.news[id].published_at.V <= now

\* item id is as an Unpublish leaves it
Unpublished(id) == id \in DOMAIN db.news /\ ~db.news[id].is_published

\* C27: the last successful Publish or Unpublish of a stored news item decides
\* which listing returns it.  Publish(id) sets is_published and stamps published_at
\* with the clock of the call and changes nothing else but updated_at; Unpublish(id)
\* clears is_published; the item stays as the call left it until the other call or
\* a Delete succeeds on it, however much time passes; GetPublished with a limit
\* that is negative or not below the number of items returns every item a Publish
\* left and, with any limit, no item an Unpublish left; GetDrafts returns exactly
\* the items with is_published false; and no stored item satisfies the WHERE
\* clauses of both listings.
C27_LastCallDecides ==
    /\ [][\A id \in Ids :
            /\ Publishes(id) =>
                   /\ id \in DOMAIN db.news
                   /\ db'.news[id] = [db.news[id] EXCEPT !.is_published = TRUE,
                                                        !.published_at = NotNull(now),
                                                        !.updated_at = now]
                   /\ Stamped(id)'
            /\ Unpublishes(id) => Unpublished(id)'
            /\ Stamped(id) /\ id \in DOMAIN db'.news /\ ~Unpublishes(id)
                   => Stamped(id)'
            /\ Unpublished(id) /\ id \in DOMAIN db'.news /\ ~Publishes(id)
                   => Unpublished(id)'
            /\ \A limit \in -1..MaxNewsRows :
                   /\ limit < 0 \/ limit >= Cardinality(DOMAIN db.news)
                   /\ GetPublished(Background, limit, FALSE)
                   /\ Stamped(id)
                   => id \in Returned("News.GetPublished")
            /\ \A limit \in -1..MaxNewsRows :
                   GetPublished(Background, limit, FALSE) /\ Unpublished(id)
                   => id \notin Returned("News.GetPublished")
            /\ GetDrafts(Background, FALSE) =>
                   (id \in Returned("News.GetDrafts") <=> Unpublished(id))]_vars
    /\ [](\A id \in DOMAIN db.news : ~(Visible(db.news[id], now) /\ Draft(db.news[id])))

\* GetPublished returned an item that was published again after it was created: its
\* published_at is the time of its last update, later than its creation, while
\* another stored item is a draft
C27_Witness ==
    /\ last.op = "News.GetPublished"
    /\ last.err = NoError
    /\ \E k \in DOMAIN last.out :
        /\ last.out[k].published_at = NotNull(last.out[k].updated_at)
        /\ last.out[k].updated_at > last.out[k].created_at
    /\ \E id \in DOMAIN db.news : Draft(db.news[id])

----------------------------------------------------------------------------
(* Properties of the lab member repository (SpecMembers)                      *)

\* C18: LabMember.GetAll returns every stored lab member once and nothing else,
\* every member that is not an alumni before every alumni, and within the alumni
\* and within the others the members in ascending display_order.
C18_GetAllOrder ==
    [][last'.op = "LabMember.GetAll" /\ last'.err = NoError =>
        /\ ListsExactly(last'.out, db.lab_members, DOMAIN db.lab_members)
        /\ \A i, j \in DOMAIN last'.out : i < j =>
            /\ ~(last'.out[i].is_alumni /\ ~last'.out[j].is_alumni)
            /\ last'.out[i].is_alumni = last'.out[j].is_alumni =>
                    last'.out[i].display_order <= last'.out[j].display_order]_vars

\* GetAll returned three members: two that are not alumni in ascending
\* display_order, then an alumni whose display_order is lower than the second's
C18_Witness ==
    /\ last.op = "LabMember.GetAll"
    /\ last.err = NoError
    /\ Len(last.out) = MaxMembers
    /\ ~last.out[1].is_alumni /\ ~last.out[2].is_alumni
    /\ last.out[1].display_order < last.out[2].display_order
    /\ last.out[MaxMembers].is_alumni
    /\ last.out[MaxMembers].display_order < last.out[2].display_order

----------------------------------------------------------------------------
(* Properties of the alumni status (SpecRoles)                                *)

\* member id is stored as an alumni
IsAlumni(id) == id \in DOMAIN db.lab_members /\ db.lab_members[id].is_alumni

\* member id is stored as a current member of the role
IsActive(id, role) ==
    /\ id \in DOMAIN db.lab_members
    /\ ~db.lab_members[id].is_alumni
    /\ db.lab_members[id].role = role

\* C28: GetByRole(role) returns exactly the stored members of the role that are
\* not alumni, and GetAlumni exactly the stored alumni, each as it is stored.  A
\* successful MarkAsAlumni(id, a) sets is_alumni of member id to a and updated_at
\* to the clock and changes nothing else, in that member or any other; the
\* status and the role of a member stay as they are in every step that is not a
\* successful MarkAsAlumni or Delete of it.  So after MarkAsAlumni(id, true) the
\* member is listed by GetAlumni and by no GetByRole, and after
\* MarkAsAlumni(id, false) by GetByRole of its role only.
C28_AlumniListings ==
    [][\A id \in Ids :
        /\ \A a \in BOOLEAN :
               MarkAsAlumni(Background, id, a, FALSE) /\ last'.err = NoError =>
                   /\ id \in DOMAIN db.lab_members
                   /\ db' = [db EXCEPT !.lab_members[id].is_alumni = a,
                                       !.lab_members[id].updated_at = now]
        /\ id \in DOMAIN db.lab_members /\ id \in DOMAIN db'.lab_members
               /\ ~(\E a \in BOOLEAN :
                       MarkAsAlumni(Background, id, a, FALSE) /\ last'.err = NoError)
               => db'.lab_members[id] = db.lab_members[id]
        /\ GetAlumni(Background, FALSE) =>
               /\ id \in Returned("LabMember.GetAlumni") <=> IsAlumni(id)
               /\ \A k \in DOMAIN last'.out :
                      last'.out[k] = db.lab_members[last'.out[k].id]
        /\ (\E role \in MemberRoles : GetByRole(Background, role, FALSE)) =>
               /\ id \in Returned("LabMember.GetByRole") <=> IsActive(id, last'.key)
               /\ \A k \in DOMAIN last'.out :
                      last'.out[k] = db.lab_members[last'.out[k].id]]_vars

\* GetAlumni returned a member that MarkAsAlumni updated after its creation, while
\* a current member of the same role is stored
C28_Witness ==
    /\ last.op = "LabMember.GetAlumni"
    /\ last.err = NoError
    /\ \E k \in DOMAIN last.out :
        /\ last.out[k].updated_at > last.out[k].created_at
        /\ \E id \in Ids : IsActive(id, last.out[k].role)

----------------------------------------------------------------------------
(* Properties of WrapError (SpecWrap)                                         *)

\* errors.As: err or an error it wraps is a unique or primary-key violation
RECURSIVE WrapsDuplicate(_)
WrapsDuplicate(err) ==
    \/ IsDuplicateError(err)
    \/ /\ err.kind = "wrapped"
       /\ WrapsDuplicate(err.cause)

\* the result carries the operation label and unwraps to the error given
Labelled(call) ==
    /\ call.err.kind = "wrapped"
    /\ call.err.msg = call.label
    /\ call.err.cause = call.arg
    /\ ErrorsIs(call.err, call.arg)

\* C20 as stated: WrapError returns nil for nil, ErrNotFound for a no-rows error,
\* ErrDuplicate for a unique or primary-key violation, and for every other error
\* one that carries the label and unwraps to the original; an error is a no-rows
\* error or a violation when it is one or wraps one.
C20_AsStated ==
    last.op = "WrapError" =>
        IF last.arg = NoError THEN last.err = NoError
        ELSE IF ErrorsIs(last.arg, sqlErrNoRows) THEN last.err = ErrNotFound
        ELSE IF WrapsDuplicate(last.arg) THEN last.err = ErrDuplicate
        ELSE Labelled(last)

\* C20: WrapError returns nil for nil; ErrNotFound for an error that is or wraps
\* sql.ErrNoRows; ErrDuplicate for an error that is itself the driver's error of a
\* unique or primary-key violation; and for every other error, a violation that
\* arrives wrapped in another error included, an error that carries the operation
\* label and unwraps to the error given.
C20_WrapErrorCases ==
    last.op = "WrapError" =>
        IF last.arg = NoError THEN last.err = NoError
        ELSE IF ErrorsIs(last.arg, sqlErrNoRows) THEN last.err = ErrNotFound
        ELSE IF last.arg \in {SqliteError(sqliteConstraintUnique),
                              SqliteError(sqliteConstraintPrimaryKey)}
             THEN last.err = ErrDuplicate
        ELSE Labelled(last) /\ last.err \notin {ErrNotFound, ErrDuplicate}

\* WrapError was given a primary-key violation wrapped in another error and
\* returned it under the operation label
C20_Witness ==
    /\ last.op = "WrapError"
    /\ last.arg = Errorf("query", SqliteError(sqliteConstraintPrimaryKey))
    /\ last.err = Errorf("create user", last.arg)
    /\ ErrorsIs(last.err, SqliteError(sqliteConstraintPrimaryKey))

----------------------------------------------------------------------------
(* Properties of the connection pool (SpecPool)                               *)

\* C21: after any ConfigurePool(maxOpen, maxIdle) call, a zero argument means the
\* runtime default is in effect for that limit: ConfigurePool(10, 5) followed by
\* ConfigurePool(0, 0) leaves the pool with the default, unbounded, maximum of
\* open connections.
C21_ZeroMeansDefault ==
    last.op = "ConfigurePool" =>
        /\ last.maxOpenConns = 0 => pool.maxOpen = DefaultPool.maxOpen
        /\ last.maxIdleConns = 0 => MaxIdleConns(pool) = MaxIdleConns(DefaultPool)

----------------------------------------------------------------------------
(* Properties of the application errors (SpecStatus)                          *)

\* C24: classification and HTTP status agree for every error: an error for
\* which IsNotFound holds maps to 404 under GetStatusCode, IsDuplicate to 409,
\* IsValidationError to 400, and database and internal errors to 500, for the
\* sentinels, for AppError values, and for errors wrapping either.
C24_ClassAgreesWithStatus ==
    last.op = "GetStatusCode" =>
        /\ IsNotFound(last.arg) => last.status = StatusNotFound
        /\ IsDuplicate(last.arg) => last.status = StatusConflict
        /\ IsValidationError(last.arg) => last.status = StatusBadRequest
        /\ IsInternalError(last.arg) \/ isError(last.arg, Sentinel("ErrDatabase"))
              => last.status = StatusInternalServerError

----------------------------------------------------------------------------
(* Properties of the configuration (SpecConfig)                               *)

\* C25: every Config with Env = production for which Validate returns nil has
\* CSRF enabled, HttpOnly cookies, SameSite strict, a log level other than
\* debug, a session secret of at least 32 characters and secure cookies
\* enabled, whatever the COOKIE_SECURE setting was.
C25_ProductionRules ==
    (last.op = "Validate" /\ last.cfg.Env = "production" /\ last.err = NoError) =>
        /\ last.cfg.CSRFEnabled
        /\ last.cfg.CookieHttpOnly
        /\ ToLower(last.cfg.CookieSameSite) = "strict"
        /\ last.cfg.LogLevel # "debug"
        /\ Len(last.cfg.SessionSecret) >= 32
        /\ last.cfg.CookieSecure

----------------------------------------------------------------------------
(* Properties of the migration runner (SpecMigrate, SpecRace)                 *)

\* a Run returns in this step
RunReturned == last' # last /\ last'.op = "Run"

\* the migration a failed Run stopped at
Failed == RunReturned /\ last'.err # NoError /\ last'.migration # None

NoDuplicates(s) == \A i, j \in 1..Len(s) : s[i] = s[j] => i = j

\* C22: a Run on a runner whose previous Run returned nil is idempotent: it
\* returns nil, applies no migration, and leaves schema_migrations and the tables
\* with the rows they had; every version is recorded at most once.
C22_SecondRunIdempotent ==
    /\ [](NoDuplicates(mig.schema_migrations))
    /\ [][run[1].ok =>
            /\ Contents(mig') = Contents(mig)
            /\ RunReturned => last'.err = NoError /\ last'.did = {}]_vars

\* both files of a directory were applied, one creating the table and one
\* inserting a row, and the Run after that returned nil
C22_Witness ==
    /\ last.op = "Run" /\ last.again /\ last.err = NoError
    /\ Len(mig.schema_migrations) = 2
    /\ mig.rows = 1
    /\ run[1].runs = 2

\* what holds of every applyMigration that fails, except for the record of the
\* version: the store is as before the migration, Run's error names the
\* migration, and this Run applied only migrations at earlier positions
FailsAtomically ==
    /\ Contents(mig') = Contents(mig)
    /\ mig'.lock # last'.runner
    /\ last'.err.msg = <<"failed to apply migration", last'.migration.Version,
                         last'.migration.Name>>
    /\ run[last'.runner].migrations[last'.at] = last'.migration
    /\ \A k \in last'.did : k < last'.at
    /\ run'[last'.runner].pc = "idle"

C30_ConcurrentRuns ==
    /\ [](/\ \A m \in MigrationFiles : mig.commits[m] <= 1
          /\ NoDuplicates(mig.schema_migrations))
    /\ [][Failed => Contents(mig') = Contents(mig) /\ mig'.lock # last'.runner]_vars

\* two runners read schema_migrations before either applied 002_seed.sql; one
\* committed it, the other ran its INSERT and failed to record the version
C30_Witness ==
    /\ last.op = "Run" /\ last.runner = 2
    /\ last.migration = Migration(2, "seed")
    /\ ErrorsIs(last.err, SqliteError(sqliteConstraintPrimaryKey))
    /\ run[1].did = {1, 2} /\ run[1].dir = run[2].dir
    /\ mig.commits[Migration(2, "seed")] = 1
    /\ mig.rows = 1

----------------------------------------------------------------------------
(* Properties of WithTransaction (SpecTx)                                     *)

\* C1: a WithTransaction called with a context that carries a transaction reuses
\* it: the transaction its fn sees is the one of that context, and the call
\* neither commits nor rolls back on its own.
C1_NestedReusesTx ==
    \A c \in TxIds :
        txs[c].state \notin {"unused", "beginFailed"} /\ txs[c].ctx # Background =>
            /\ txs[c].tx = GetTx(txs[c].ctx)
            /\ txs[c].state \notin {"committed", "rolledBack", "commitFailed"}

\* call c returns in this step
Ended(c) == txs[c].state = "open" /\ txs'[c].state # "open"

\* the store with the mutations fn made through the context of call c
Saw(c) == IF txs[c].dirty THEN txs[c].view ELSE db

\* what the claim says of a call whose fn returned an error
RolledBack(c) ==
    /\ txs'[c].state = "rolledBack"
    /\ db' = db
    /\ last'.err # NoError
    /\ ErrorsIs(last'.err, last'.fnErr)

\* C2 as stated: when fn returns nil the transaction is committed and the
\* mutations made with fn's context are in the store; when fn returns an error
\* the store is as before and WithTransaction's error unwraps to fn's error.
C2_AsStated ==
    [][\A c \in TxIds : Ended(c) =>
        IF last'.fnErr = NoError
        THEN txs'[c].state = "committed" /\ db' = Saw(c)
        ELSE RolledBack(c)]_vars

\* C2: when fn returns nil WithTransaction calls Commit: if Commit succeeds it
\* returns nil and the mutations made with fn's context are in the store, if
\* Commit fails it returns an error that wraps Commit's and the store is as
\* before; when fn returns an error the store is as before and WithTransaction's
\* error unwraps to fn's error, also when Rollback fails.  WithTransaction
\* returns nil only when it committed.
C2_CommitOrRollback ==
    [][\A c \in TxIds : Ended(c) =>
        /\ last'.op = "WithTransaction" /\ last'.call = c
        /\ last'.err = NoError <=> txs'[c].state = "committed"
        /\ IF last'.fnErr # NoError THEN RolledBack(c)
           ELSE IF txs'[c].state = "committed" THEN db' = Saw(c)
           ELSE /\ txs'[c].state = "commitFailed"
                /\ db' = db
                /\ ErrorsIs(last'.err, DriverError)]_vars

\* a call that wrote a project was rolled back and its Rollback failed too: the
\* error still unwraps to fn's, and the project is not in the store
C2_Witness ==
    /\ last.op = "WithTransaction"
    /\ last.wrote
    /\ last.fnErr = AnError
    /\ last.err # last.fnErr
    /\ txs[last.call].state = "rolledBack"
    /\ DOMAIN db.projects = {}

----------------------------------------------------------------------------
(* Properties of the calls of WithTransaction (SpecFinish)                    *)

\* C29: when a call of WithTransaction has returned, the transaction it began
\* has had exactly one ending call, a Commit or a Rollback and never both, and
\* is not open, whether that call succeeded or failed; a call whose BeginTx
\* failed has no transaction, made no ending call and never invoked fn; a
\* transaction is open only between BeginTx and the ending call; and fn is
\* invoked at most once per call.
C29_FinishedOnReturn ==
    \A c \in TxIds :
        /\ wt[c].fnCalls <= 1
        /\ wt[c].tx = "open" <=> wt[c].pc \in {"fn", "Rollback", "Commit"}
        /\ wt[c].pc = "returned" =>
               IF wt[c].tx = "none"
               THEN wt[c].fnCalls = 0 /\ wt[c].commits + wt[c].rollbacks = 0
               ELSE /\ wt[c].fnCalls = 1
                    /\ wt[c].commits + wt[c].rollbacks = 1
                    /\ wt[c].tx \in IF wt[c].commits = 1
                                     THEN {"committed", "commitFailed"}
                                     ELSE {"rolledBack", "rollbackFailed"}
                    /\ wt[c].fnErr = NoError <=> wt[c].commits = 1

\* every call has returned, one of them after its Rollback failed and another
\* after its Commit failed
C29_Witness ==
    /\ \A c \in TxIds : wt[c].pc = "returned"
    /\ \E c \in TxIds : wt[c].tx = "rollbackFailed"
    /\ \E c \in TxIds : wt[c].tx = "commitFailed"

----------------------------------------------------------------------------
(* Properties of Delete (SpecDelete)                                          *)

\* C6 as stated: once a Delete(id) has returned nil, every GetByID(id) and every
\* further Delete(id) of that entity returns ErrNotFound.
C6_AsStated ==
    [][last'.op \in GetByIDOps \cup DeleteOps /\ last'.ran
            /\ <<last'.tbl, last'.id>> \in deleted =>
                last'.err = ErrNotFound]_vars

\* C6: once a Delete(id) that returned nil has taken effect in the store (it ran
\* on the base handle, or in a transaction that then committed), no row of that
\* table has the id again, whatever is created later, and every GetByID(id) and
\* Delete(id) on the base handle returns ErrNotFound.
C6_DeletedStaysDeleted ==
    /\ [](\A d \in purged : d[2] \notin DOMAIN db[d[1]])
    /\ [][last'.op \in GetByIDOps \cup DeleteOps /\ last'.ran
            /\ last'.ctx = Background /\ <<last'.tbl, last'.id>> \in purged =>
                (last'.err = ErrNotFound /\ last'.out = None /\ db' = db)]_vars

\* a GetByID of an id whose Delete took effect returned ErrNotFound after a later
\* Create put a row into the same table
C6_Witness ==
    /\ last.op \in GetByIDOps
    /\ last.ctx = Background
    /\ <<last.tbl, last.id>> \in purged
    /\ last.err = ErrNotFound
    /\ DOMAIN db[last.tbl] # {}
    /\ \A i \in DOMAIN db[last.tbl] : i > last.id

====
